---- MODULE Spec2Model ----
(***************************************************************************)
(* Verification model of the vscsim numerical core: the dense linear       *)
(* solver and Newton-Raphson engine (solver/nr.py), the explicit           *)
(* integrators (solver/integrator.py, solver/integrator_rk.py), the        *)
(* single-step orchestrator run_step and the adaptive driver               *)
(* run_simulation_adaptive (solver/simulation.py, solver/timestepper.py).  *)
(*                                                                         *)
(* Numbers.  Python floats are modelled by exact rationals <<n, d>> in     *)
(* lowest terms with d > 0, so algebraic identities are decided exactly.   *)
(* The adaptive stepper rounds its step size down to a multiple of         *)
(* 1/DtGrid after every update.                                            *)
(* A Python exception is modelled by the "err" field of a result record.   *)
(***************************************************************************)
EXTENDS Integers, Sequences, FiniteSets, TLC

(***************************************************************************)
(* Exact rational arithmetic                                               *)
(***************************************************************************)
\* the element of a singleton: Only({e(v) : v \in {a}}) is e(a), with a
\* evaluated once however often e uses v
Only(S) == CHOOSE e \in S : TRUE

RECURSIVE Gcd(_, _)
Gcd(a, b) == IF b = 0 THEN a ELSE Only({Gcd(x, r) : x \in {b}, r \in {a % b}})

IAbs(n) == IF n < 0 THEN -n ELSE n

Norm(n, d) ==
    IF n = 0 THEN <<0, 1>>
    ELSE Only({<<((IF d < 0 THEN -1 ELSE 1) * n) \div g,
                 ((IF d < 0 THEN -1 ELSE 1) * d) \div g>> :
                g \in {Gcd(IAbs(n), IAbs(d))}})

R(n) == <<n, 1>>
Zero == <<0, 1>>
One == <<1, 1>>

\* sums and products cancel common factors before multiplying
RAdd(a, b) ==
    Only({Only({Norm(x[1] * (y[2] \div g) + y[1] * (x[2] \div g),
                     (x[2] \div g) * y[2]) : g \in {Gcd(x[2], y[2])}}) :
            x \in {a}, y \in {b}})
RNeg(a) == Only({<<-x[1], x[2]>> : x \in {a}})
RSub(a, b) == RAdd(a, RNeg(b))
RMul(a, b) ==
    Only({IF x[1] = 0 \/ y[1] = 0 THEN <<0, 1>>
          ELSE Only({<<(x[1] \div g1) * (y[1] \div g2), (x[2] \div g2) * (y[2] \div g1)>> :
                        g1 \in {Gcd(IAbs(x[1]), y[2])}, g2 \in {Gcd(IAbs(y[1]), x[2])}}) :
            x \in {a}, y \in {b}})
\* callers test the divisor for zero first (Python raises ZeroDivisionError)
RDiv(a, b) ==
    Only({RMul(a, IF y[1] < 0 THEN <<-y[2], -y[1]>> ELSE <<y[2], y[1]>>) : y \in {b}})
RAbs(a) == Only({<<IAbs(x[1]), x[2]>> : x \in {a}})

\* a <= b for non-negative rationals, by continued-fraction comparison, so
\* that no cross product is formed (1e-8 against a coarse fraction)
RECURSIVE LeqNonNeg(_, _, _, _)
LeqNonNeg(an, ad, bn, bd) ==
    \E qa \in {an \div ad}, qb \in {bn \div bd}, ra \in {an % ad}, rb \in {bn % bd} :
        IF qa # qb THEN qa < qb
        ELSE IF ra = 0 THEN TRUE
        ELSE IF rb = 0 THEN FALSE
        ELSE \E p \in {bd}, q \in {ad} : LeqNonNeg(p, rb, q, ra)

RLe(a, b) ==
    \E x \in {a}, y \in {b} :
        IF x[1] < 0 /\ y[1] >= 0 THEN TRUE
        ELSE IF x[1] >= 0 /\ y[1] < 0 THEN FALSE
        ELSE IF x[1] >= 0 THEN LeqNonNeg(x[1], x[2], y[1], y[2])
        ELSE LeqNonNeg(-y[1], y[2], -x[1], x[2])

RLt(a, b) == ~RLe(b, a)

\* floor of the square root of a natural number (bisection on [lo, hi))
RECURSIVE ISqrtIn(_, _, _)
ISqrtIn(n, lo, hi) ==
    IF hi - lo <= 1 THEN lo
    ELSE Only({IF mid * mid <= n
               THEN Only({ISqrtIn(n, mid, h) : h \in {hi}})
               ELSE Only({ISqrtIn(n, l, mid) : l \in {lo}}) :
                    mid \in {(lo + hi) \div 2}})

ISqrt(n) == Only({ISqrtIn(m, 0, IF m < 46340 THEN m + 1 ELSE 46341) : m \in {n}})

(***************************************************************************)
(* Python dicts: a sequence of <<key, value>> pairs in insertion order     *)
(***************************************************************************)
Keys(d) == {d[i][1] : i \in DOMAIN d}
KeySeq(d) == [i \in DOMAIN d |-> d[i][1]]
Has(d, k) == k \in Keys(d)
Get(d, k) == d[CHOOSE i \in DOMAIN d : d[i][1] = k][2]
GetOr(d, k, default) == IF Has(d, k) THEN Get(d, k) ELSE default

STATE_KEYS == <<"id", "iq", "Vdc">>
ALGEBRAIC_KEYS == <<"Idc", "P_ac", "Q_ac">>

MkX(a, b, c) == <<<<"id", a>>, <<"iq", b>>, <<"Vdc", c>>>>
MkY(a, b, c) == <<<<"Idc", a>>, <<"P_ac", b>>, <<"Q_ac", c>>>>

ThreeHalves == <<3, 2>>
Half == <<1, 2>>

(***************************************************************************)
(* DAE model (model/dae.py, model/jacobian.py)                             *)
(***************************************************************************)
FRhsErr(x, y, params, inputs) ==
    IF ~({"id", "iq", "Vdc"} \subseteq Keys(x)) \/ ~Has(y, "Idc") THEN "KeyError"
    ELSE IF params.L = Zero \/ params.Cdc = Zero THEN "ZeroDivisionError"
    ELSE "none"

\* f_rhs with the PCC voltage dropped from the current equations
FRhs_NoPcc(x, y, params, inputs) ==
    LET id_ == Get(x, "id")
        iq_ == Get(x, "iq")
        did_dt == RDiv(RAdd(RSub(inputs.v_conv_d, RMul(params.R, id_)),
                            RMul(RMul(params.omega, params.L), iq_)),
                       params.L)
        diq_dt == RDiv(RSub(RSub(inputs.v_conv_q, RMul(params.R, iq_)),
                            RMul(RMul(params.omega, params.L), id_)),
                       params.L)
    IN  <<<<"id", did_dt>>, <<"iq", diq_dt>>, <<"Vdc", RDiv(Get(y, "Idc"), params.Cdc)>>>>

\* f_rhs whose Vdc equation takes the DC current at the Vdc of the stage
\* it is evaluated at, Idc * Vdc instead of the solved Idc
FRhs_StageCoupled(x, y, params, inputs) ==
    LET id_ == Get(x, "id")
        iq_ == Get(x, "iq")
        did_dt == RDiv(RSub(RAdd(RSub(inputs.v_conv_d, RMul(params.R, id_)),
                                 RMul(RMul(params.omega, params.L), iq_)),
                            inputs.v_pcc_d),
                       params.L)
        diq_dt == RDiv(RSub(RSub(RSub(inputs.v_conv_q, RMul(params.R, iq_)),
                                 RMul(RMul(params.omega, params.L), id_)),
                            inputs.v_pcc_q),
                       params.L)
        dVdc_dt == RDiv(RMul(Get(y, "Idc"), Get(x, "Vdc")), params.Cdc)
    IN  <<<<"id", did_dt>>, <<"iq", diq_dt>>, <<"Vdc", dVdc_dt>>>>

\* f_rhs: x_dot = f(x, y)
FRhs(x, y, params, inputs) ==
    LET id_ == Get(x, "id")
        iq_ == Get(x, "iq")
        Idc == Get(y, "Idc")
        did_dt == RDiv(RSub(RAdd(RSub(inputs.v_conv_d, RMul(params.R, id_)),
                                 RMul(RMul(params.omega, params.L), iq_)),
                            inputs.v_pcc_d),
                       params.L)
        diq_dt == RDiv(RSub(RSub(RSub(inputs.v_conv_q, RMul(params.R, iq_)),
                                 RMul(RMul(params.omega, params.L), id_)),
                            inputs.v_pcc_q),
                       params.L)
        dVdc_dt == RDiv(Idc, params.Cdc)
    IN  <<<<"id", did_dt>>, <<"iq", diq_dt>>, <<"Vdc", dVdc_dt>>>>

P_calc(x, inputs) ==
    RMul(ThreeHalves, RAdd(RMul(inputs.v_pcc_d, Get(x, "id")),
                           RMul(inputs.v_pcc_q, Get(x, "iq"))))

Q_calc(x, inputs) ==
    RMul(ThreeHalves, RSub(RMul(inputs.v_pcc_q, Get(x, "id")),
                           RMul(inputs.v_pcc_d, Get(x, "iq"))))

GResidualErr(x, y, params, inputs) ==
    IF ~({"id", "iq", "Vdc"} \subseteq Keys(x))
       \/ ~({"Idc", "P_ac", "Q_ac"} \subseteq Keys(y)) THEN "KeyError"
    ELSE IF Get(x, "Vdc") = Zero THEN "ZeroDivisionError"
    ELSE "none"

\* g_residual: residual of the algebraic equations, keyed Idc, P_ac, Q_ac
GResidual(x, y, params, inputs) ==
    LET Idc_calc == RDiv(Get(y, "P_ac"), Get(x, "Vdc"))
    IN  <<<<"Idc", RSub(Get(y, "Idc"), Idc_calc)>>,
          <<"P_ac", RSub(Get(y, "P_ac"), P_calc(x, inputs))>>,
          <<"Q_ac", RSub(Get(y, "Q_ac"), Q_calc(x, inputs))>>>>

DgDyErr(x, y, params, inputs) ==
    IF ~Has(x, "Vdc") THEN "KeyError"
    ELSE IF Get(x, "Vdc") = Zero THEN "ZeroDivisionError"
    ELSE "none"

\* a Jacobian without the coupling of Idc to P_ac
DgDy_Uncoupled(x, y, params, inputs) ==
    <<<<One, Zero, Zero>>, <<Zero, One, Zero>>, <<Zero, Zero, One>>>>

\* dg_dy: rows and columns in the order Idc, P_ac, Q_ac
DgDy(x, y, params, inputs) ==
    <<<<One, RDiv(R(-1), Get(x, "Vdc")), Zero>>,
      <<Zero, One, Zero>>,
      <<Zero, Zero, One>>>>

(***************************************************************************)
(* Dense linear solver (solver/nr.py)                                      *)
(***************************************************************************)
\* forward elimination, column k onwards, of the n x (n+1) augmented matrix
RECURSIVE ForwardElimination(_, _, _)
ForwardElimination(aug, k, n) ==
    IF k > n THEN [err |-> "none", aug |-> aug]
    ELSE IF aug[k][k] = Zero THEN [err |-> "ZeroDivisionError", aug |-> aug]
    ELSE
        Only({Only({Only({ForwardElimination(next, k + 1, n) :
            next \in {[i \in 1..n |->
                        IF i = k THEN rowk
                        ELSE IF i > k /\ aug[i][k] # Zero
                        THEN [j \in 1..(n + 1) |->
                                IF j >= k
                                THEN RSub(aug[i][j], RMul(aug[i][k], rowk[j]))
                                ELSE aug[i][j]]
                        ELSE aug[i]]}}) :
            rowk \in {[j \in 1..(n + 1) |->
                        IF j >= k THEN RMul(aug[k][j], inv_pivot) ELSE aug[k][j]]}}) :
            inv_pivot \in {RDiv(One, aug[k][k])}})

RECURSIVE RowTail(_, _, _, _)
RowTail(row, delta, j, n) ==
    IF j > n THEN Zero
    ELSE RAdd(RMul(row[j], delta[j]), RowTail(row, delta, j + 1, n))

\* back substitution: delta[i] for i = n down to 1
RECURSIVE BackSubstitution(_, _, _, _)
BackSubstitution(aug, delta, i, n) ==
    IF i < 1 THEN delta
    ELSE Only({BackSubstitution(aug, d, i - 1, n) :
                d \in {[delta EXCEPT ![i] =
                            RSub(aug[i][n + 1], RowTail(aug[i], delta, i + 1, n))]}})

SolveFromForward(n, fwd) ==
    IF fwd.err # "none"
    THEN [err |-> fwd.err, delta |-> <<>>]
    ELSE [err |-> "none",
          delta |-> BackSubstitution(fwd.aug, [i \in 1..n |-> Zero], n, n)]

\* _solve_linear_system(jac, res): J * delta = -res
SolveLinearSystem(jac, res) ==
    Only({SolveFromForward(Len(res), fwd) :
            fwd \in {Only({ForwardElimination(aug, 1, Len(res)) :
                        aug \in {[i \in 1..Len(res) |-> [j \in 1..(Len(res) + 1) |->
                                    IF j <= Len(res) THEN jac[i][j]
                                    ELSE RNeg(res[i])]]}})}})

(***************************************************************************)
(* Newton-Raphson engine (solver/nr.py)                                    *)
(***************************************************************************)
DefaultTol == <<1, 100000000>>
DefaultMaxIter == 20
DefaultNorm == "max"

\* keyword arguments and params entries that are absent are absent from the
\* record's domain; NoKw is the call without keyword overrides
NoKw == [k \in {} |-> 0]

\* a configuration in which a params entry overrides the keyword
NRConfigOf_ParamsFirst(params, kw) ==
    [tol |-> IF "nr_tol" \in DOMAIN params THEN params.nr_tol
             ELSE IF "tol" \in DOMAIN kw THEN kw.tol
             ELSE DefaultTol,
     max_iter |-> IF "nr_max_iter" \in DOMAIN params THEN params.nr_max_iter
                  ELSE IF "max_iter" \in DOMAIN kw THEN kw.max_iter
                  ELSE DefaultMaxIter,
     norm |-> IF "nr_norm" \in DOMAIN params THEN params.nr_norm
              ELSE IF "norm" \in DOMAIN kw THEN kw.norm
              ELSE DefaultNorm]

\* configuration precedence: keyword > params entry > NRConfig default
NRConfigOf(params, kw) ==
    [tol |-> IF "tol" \in DOMAIN kw THEN kw.tol
             ELSE IF "nr_tol" \in DOMAIN params THEN params.nr_tol
             ELSE DefaultTol,
     max_iter |-> IF "max_iter" \in DOMAIN kw THEN kw.max_iter
                  ELSE IF "nr_max_iter" \in DOMAIN params THEN params.nr_max_iter
                  ELSE DefaultMaxIter,
     norm |-> IF "norm" \in DOMAIN kw THEN kw.norm
              ELSE IF "nr_norm" \in DOMAIN params THEN params.nr_norm
              ELSE DefaultNorm]

RECURSIVE MaxAbsFrom(_, _, _)
MaxAbsFrom(values, i, m) ==
    IF i > Len(values) THEN m
    ELSE Only({MaxAbsFrom(values, i + 1, IF RLt(m, av) THEN av ELSE m) :
                av \in {RAbs(values[i][2])}})

RECURSIVE SumSqFrom(_, _)
SumSqFrom(values, i) ==
    IF i > Len(values) THEN Zero
    ELSE RAdd(RMul(values[i][2], values[i][2]), SumSqFrom(values, i + 1))

\* _vector_norm(values, kind) <= tol.  The "l2" norm is the square root of
\* the sum of squares; the comparison is made on the squares.  A tolerance
\* 1/d too fine to square is below every positive representable sum.
VectorNormLe(values, kind, tol) ==
    IF Len(values) = 0 THEN RLe(Zero, tol)
    ELSE IF kind = "l2"
    THEN LET s == SumSqFrom(values, 1)
         IN  IF tol[1] < 0 THEN FALSE
             ELSE IF tol[1] <= 46340 /\ tol[2] <= 46340 THEN RLe(s, RMul(tol, tol))
             ELSE s = Zero
    ELSE RLe(MaxAbsFrom(values, 1, Zero), tol)

\* the scalar problem y^2 - 2 = 0 of tests/test_nr_configurable.py: the
\* residual is keyed "y" whatever the key of y is
ResidualScalar(x, y, params, inputs) ==
    <<<<"y", RSub(RMul(y[1][2], y[1][2]), R(2))>>>>
JacobianScalar(x, y, params, inputs) == <<<<RMul(R(2), y[1][2])>>>>
ScalarErr(x, y, params, inputs) == IF Len(y) = 0 THEN "IndexError" ELSE "none"

\* residual / Jacobian callables handed to newton_raphson: "g_residual" is
\* the pair run_step passes, "scalar" the pair of the test
ResidualErr(kind, x, y, params, inputs) ==
    IF kind = "scalar" THEN ScalarErr(x, y, params, inputs)
    ELSE GResidualErr(x, y, params, inputs)
Residual(kind, x, y, params, inputs) ==
    IF kind = "scalar" THEN ResidualScalar(x, y, params, inputs)
    ELSE GResidual(x, y, params, inputs)
JacobianErr(kind, x, y, params, inputs) ==
    IF kind = "scalar" THEN ScalarErr(x, y, params, inputs)
    ELSE DgDyErr(x, y, params, inputs)
Jacobian(kind, x, y, params, inputs) ==
    IF kind = "scalar" THEN JacobianScalar(x, y, params, inputs)
    ELSE DgDy(x, y, params, inputs)

\* for k, key in enumerate(keys): y[key] = float(y[key]) + delta_vec[k]
NRApplyDelta(y, delta) ==
    [k \in DOMAIN y |-> <<y[k][1], RAdd(y[k][2], delta[k])>>]

\* r_vec = [float(g_val[k]) for k in keys]
NRResidualVector(y, g_val) == [k \in DOMAIN y |-> Get(g_val, y[k][1])]

RECURSIVE NRLoop(_, _, _, _, _, _, _)

\* the Newton update of one iteration, given the solved delta
NRUpdate(kind, x, y, params, inputs, cfg, it, sol) ==
    IF sol.err # "none" THEN [err |-> sol.err, y |-> y, n_iter |-> it + 1]
    ELSE Only({NRLoop(kind, x, y_new, params, inputs, cfg, it + 1) :
                y_new \in {NRApplyDelta(y, sol.delta)}})

\* one iteration after the residual g_val has been evaluated
NRBody(kind, x, y, params, inputs, cfg, it, g_val) ==
    IF VectorNormLe(g_val, cfg.norm, cfg.tol)
    THEN [err |-> "none", y |-> y, n_iter |-> it + 1]
    ELSE IF JacobianErr(kind, x, y, params, inputs) # "none"
    THEN [err |-> JacobianErr(kind, x, y, params, inputs), y |-> y, n_iter |-> it + 1]
    ELSE IF ~(Keys(y) \subseteq Keys(g_val))
    THEN [err |-> "KeyError", y |-> y, n_iter |-> it + 1]
    ELSE Only({NRUpdate(kind, x, y, params, inputs, cfg, it, sol) :
                sol \in {Only({SolveLinearSystem(jac, res) :
                            jac \in {Jacobian(kind, x, y, params, inputs)},
                            res \in {NRResidualVector(y, g_val)}})}})

\* the for-loop from iteration index it (0-based) on
NRLoop(kind, x, y, params, inputs, cfg, it) ==
    IF it >= cfg.max_iter
    THEN [err |-> "none", y |-> y, n_iter |-> it]
    ELSE IF ResidualErr(kind, x, y, params, inputs) # "none"
    THEN [err |-> ResidualErr(kind, x, y, params, inputs), y |-> y, n_iter |-> it + 1]
    ELSE Only({NRBody(kind, x, y, params, inputs, cfg, it, g_val) :
                g_val \in {Residual(kind, x, y, params, inputs)}})

\* newton_raphson(x, y0, residual, jacobian, params, inputs, **kw)
NewtonRaphson(kind, x, y0, params, inputs, kw) ==
    Only({NRLoop(kind, x, y0, params, inputs, cfg, 0) : cfg \in {NRConfigOf(params, kw)}})

(***************************************************************************)
(* Control and saturation (vsc/control_external.py, control_inner.py,      *)
(* saturation.py)                                                          *)
(***************************************************************************)
\* _compute_currents_from_pq
ComputeCurrentsFromPQ(P_ref, Q_ref, v_pcc_d, v_pcc_q) ==
    LET sP == RDiv(P_ref, ThreeHalves)
        sQ == RDiv(Q_ref, ThreeHalves)
        det == RSub(RMul(v_pcc_d, RNeg(v_pcc_d)), RMul(v_pcc_q, v_pcc_q))
    IN  IF det = Zero THEN [id_ref |-> Zero, iq_ref |-> Zero]
        ELSE LET inv_det == RDiv(One, det)
             IN  [id_ref |-> RMul(inv_det, RSub(RMul(RNeg(v_pcc_d), sP), RMul(v_pcc_q, sQ))),
                  iq_ref |-> RMul(inv_det, RAdd(RMul(RNeg(v_pcc_q), sP), RMul(v_pcc_d, sQ)))]

ControlMode(scenario) ==
    IF "control_mode" \in DOMAIN scenario THEN scenario.control_mode ELSE "PQ"

ComputeCurrentReferencesErr(scenario) ==
    IF ControlMode(scenario) = "PQ"
    THEN IF {"P_ref", "Q_ref", "v_pcc_d", "v_pcc_q"} \subseteq DOMAIN scenario
         THEN "none" ELSE "KeyError"
    ELSE IF ControlMode(scenario) = "VdcQ"
    THEN IF {"id_ref", "iq_ref"} \subseteq DOMAIN scenario THEN "none" ELSE "KeyError"
    ELSE "none"

\* compute_current_references(t, x, y, scenario, params)
ComputeCurrentReferences(scenario) ==
    IF ControlMode(scenario) = "PQ"
    THEN ComputeCurrentsFromPQ(scenario.P_ref, scenario.Q_ref,
                               scenario.v_pcc_d, scenario.v_pcc_q)
    ELSE IF ControlMode(scenario) = "VdcQ"
    THEN [id_ref |-> scenario.id_ref, iq_ref |-> scenario.iq_ref]
    ELSE [id_ref |-> Zero, iq_ref |-> Zero]

\* compute_converter_voltage_references: proportional law
ComputeConverterVoltageReferences(id_ref, iq_ref, x, params) ==
    LET Kp_id == IF "Kp_id" \in DOMAIN params THEN params.Kp_id ELSE Zero
        Kp_iq == IF "Kp_iq" \in DOMAIN params THEN params.Kp_iq ELSE Zero
    IN  [v_conv_d_ref |-> RMul(Kp_id, RSub(id_ref, Get(x, "id"))),
         v_conv_q_ref |-> RMul(Kp_iq, RSub(iq_ref, Get(x, "iq")))]

\* math.sqrt: exact on squares of rationals, otherwise rounded down to the
\* resolution 1/(d * SqrtScale)
SqrtScale == 100
RSqrt(a) ==
    Only({IF r * r = x[1] * x[2] THEN Norm(r, x[2])
          ELSE Only({Norm(rs, x[2] * SqrtScale) :
                        rs \in {ISqrt(x[1] * x[2] * SqrtScale * SqrtScale)}}) :
            x \in {a}, r \in {ISqrt(a[1] * a[2])}})

\* apply_voltage_saturation(v_conv_d_ref, v_conv_q_ref, v_max)
ApplyVoltageSaturation(v_conv_d_ref, v_conv_q_ref, v_max) ==
    Only({IF RLe(v_sq, RMul(v_max, v_max)) \/ v_sq = Zero
          THEN [v_conv_d |-> v_conv_d_ref, v_conv_q |-> v_conv_q_ref]
          ELSE Only({[v_conv_d |-> RMul(v_conv_d_ref, scale),
                      v_conv_q |-> RMul(v_conv_q_ref, scale)] :
                        scale \in {RDiv(v_max, RSqrt(v_sq))}}) :
            v_sq \in {RAdd(RMul(v_conv_d_ref, v_conv_d_ref),
                           RMul(v_conv_q_ref, v_conv_q_ref))}})

(***************************************************************************)
(* Explicit integrators (solver/integrator.py, solver/integrator_rk.py,    *)
(* solver/integrator_factory.py)                                           *)
(***************************************************************************)
\* an Euler step that ignores the step size
StepForward_NoDt(x, x_dot, dt) ==
    [err |-> "none",
     x |-> [i \in DOMAIN x |-> <<x[i][1], RAdd(x[i][2], GetOr(x_dot, x[i][1], Zero))>>]]

\* step_forward(x, x_dot, dt): legacy explicit Euler
StepForward(x, x_dot, dt) ==
    Only({[err |-> "none",
           x |-> [i \in DOMAIN x |->
                    <<x[i][1], RAdd(x[i][2], RMul(h, GetOr(d, x[i][1], Zero)))>>]] :
            h \in {dt}, d \in {x_dot}})

\* the derivative callable f(state, context) handed to an RK integrator:
\* "f_rhs" is run_step's closure over y_next, params and inputs; "table" is
\* a callable returning the fixed mapping context.table
RhsErr(kind, state, context) ==
    IF kind = "f_rhs" THEN FRhsErr(state, context.y, context.params, context.inputs)
    ELSE "none"

Rhs(kind, state, context) ==
    IF kind = "f_rhs" THEN FRhs(state, context.y, context.params, context.inputs)
    ELSE context.table

\* state + c * deriv over the keys of state (every key has a derivative)
Advance(state, c, deriv) ==
    Only({[i \in DOMAIN state |->
            <<state[i][1], RAdd(state[i][2], RMul(h, Get(d, state[i][1])))>>] :
            h \in {c}, d \in {deriv}})

Fail(e, state) == [err |-> e, x |-> state]

\* one stage: k = f(s, context), then the check that k has a derivative for
\* every key of state (made by the loop that consumes k)
Stage(kind, s, context, state) ==
    IF RhsErr(kind, s, context) # "none"
    THEN [err |-> RhsErr(kind, s, context), k |-> <<>>]
    ELSE Only({IF ~(Keys(state) \subseteq Keys(k))
               THEN [err |-> "KeyError", k |-> <<>>]
               ELSE [err |-> "none", k |-> k] :
                    k \in {Rhs(kind, s, context)}})

\* the stage at the intermediate state state + c * k
StageAt(kind, state, c, k, context) ==
    Only({Stage(kind, s, context, state) : s \in {Advance(state, c, k)}})

RK1From1(state, dt, s1) ==
    IF s1.err # "none" THEN Fail(s1.err, state)
    ELSE [err |-> "none", x |-> Advance(state, dt, s1.k)]

\* RK1Integrator.step
RK1Step(kind, state, dt, context) ==
    Only({RK1From1(state, dt, s1) : s1 \in {Stage(kind, state, context, state)}})

RK2From2(state, dt, s2) ==
    IF s2.err # "none" THEN Fail(s2.err, state)
    ELSE [err |-> "none", x |-> Advance(state, dt, s2.k)]

RK2From1(kind, state, dt, context, s1) ==
    IF s1.err # "none" THEN Fail(s1.err, state)
    ELSE Only({RK2From2(state, dt, s2) :
                s2 \in {StageAt(kind, state, RMul(Half, dt), s1.k, context)}})

\* RK2Integrator.step (midpoint)
RK2Step(kind, state, dt, context) ==
    Only({RK2From1(kind, state, dt, context, s1) :
            s1 \in {Stage(kind, state, context, state)}})

RK4From4(state, dt, k1, k2, k3, s4) ==
    IF s4.err # "none" THEN Fail(s4.err, state)
    ELSE [err |-> "none",
          x |-> [i \in DOMAIN state |->
                  <<state[i][1],
                    RAdd(state[i][2],
                         RMul(RDiv(dt, R(6)),
                              RAdd(RAdd(Get(k1, state[i][1]),
                                        RMul(R(2), Get(k2, state[i][1]))),
                                   RAdd(RMul(R(2), Get(k3, state[i][1])),
                                        Get(s4.k, state[i][1])))))>>]]

RK4From3(kind, state, dt, context, k1, k2, s3) ==
    IF s3.err # "none" THEN Fail(s3.err, state)
    ELSE Only({RK4From4(state, dt, k1, k2, s3.k, s4) :
                s4 \in {StageAt(kind, state, dt, s3.k, context)}})

RK4From2(kind, state, dt, context, k1, s2) ==
    IF s2.err # "none" THEN Fail(s2.err, state)
    ELSE Only({RK4From3(kind, state, dt, context, k1, s2.k, s3) :
                s3 \in {StageAt(kind, state, RMul(Half, dt), s2.k, context)}})

RK4From1(kind, state, dt, context, s1) ==
    IF s1.err # "none" THEN Fail(s1.err, state)
    ELSE Only({RK4From2(kind, state, dt, context, s1.k, s2) :
                s2 \in {StageAt(kind, state, RMul(Half, dt), s1.k, context)}})

\* RK4Integrator.step (classical)
RK4Step(kind, state, dt, context) ==
    Only({RK4From1(kind, state, dt, context, s1) :
            s1 \in {Stage(kind, state, context, state)}})

\* integrator_name = None (the legacy Euler path) is written PyNone
PyNone == "<None>"
SupportedIntegrators == {"rk1", "euler", "rk2", "rk4"}

\* get_integrator(name).step(f, state, dt, context)
IntegratorStep(name, kind, state, dt, context) ==
    IF name \in {"rk1", "euler"} THEN RK1Step(kind, state, dt, context)
    ELSE IF name = "rk2" THEN RK2Step(kind, state, dt, context)
    ELSE RK4Step(kind, state, dt, context)

(***************************************************************************)
(* Single-step orchestrator (solver/simulation.py)                         *)
(***************************************************************************)
\* _build_inputs(scenario, v_conv_d, v_conv_q)
BuildInputs(scenario, v_conv_d, v_conv_q) ==
    [v_conv_d |-> v_conv_d,
     v_conv_q |-> v_conv_q,
     v_pcc_d |-> IF "v_pcc_d" \in DOMAIN scenario THEN scenario.v_pcc_d ELSE One,
     v_pcc_q |-> IF "v_pcc_q" \in DOMAIN scenario THEN scenario.v_pcc_q ELSE Zero]

\* limits that report the PCC voltage among the algebraic variables
ApplyScenarioLimits_ExtraKey(x, y, scenario) ==
    [x |-> x, y |-> Append(y, <<"v_pcc_d", Zero>>)]

\* _apply_scenario_limits: identity, returning copies
ApplyScenarioLimits(x, y, scenario) == [x |-> x, y |-> y]

NoInputs == BuildInputs([control_mode |-> "PQ"], Zero, Zero)
StepFail(e, x, y) == [err |-> e, x |-> x, y |-> y, nr_iter |-> 0, inputs |-> NoInputs]

\* stages 1-4 of run_step: the references, the saturated voltages, inputs
StepInputs(x, scenario, params) ==
    Only({Only({Only({BuildInputs(scenario, sat.v_conv_d, sat.v_conv_q) :
        sat \in {ApplyVoltageSaturation(vref.v_conv_d_ref, vref.v_conv_q_ref, v_max)}}) :
        vref \in {ComputeConverterVoltageReferences(refs.id_ref, refs.iq_ref, x, params)}}) :
        refs \in {ComputeCurrentReferences(scenario)},
        v_max \in {IF "V_max" \in DOMAIN params THEN params.V_max ELSE One}})

\* stages 5-6 of run_step: evaluate f and integrate x over dt
StepIntegrate(dt, x, y_next, params, inputs, integrator_name) ==
    IF integrator_name = PyNone
    THEN IF FRhsErr(x, y_next, params, inputs) # "none"
         THEN Fail(FRhsErr(x, y_next, params, inputs), x)
         ELSE StepForward(x, FRhs(x, y_next, params, inputs), dt)
    ELSE Only({IntegratorStep(integrator_name, "f_rhs", x, dt, context) :
                context \in {[y |-> y_next, params |-> params, inputs |-> inputs]}})

\* stage 7 and the return value
RunStepFinish(x, y, scenario, inputs, nr, integ) ==
    IF integ.err # "none" THEN StepFail(integ.err, x, y)
    ELSE [err |-> "none",
          x |-> ApplyScenarioLimits(integ.x, nr.y, scenario).x,
          y |-> ApplyScenarioLimits(integ.x, nr.y, scenario).y,
          nr_iter |-> nr.n_iter, inputs |-> inputs]

\* stages 5-6 fed with the incoming y instead of the NR solution
RunStepFromNR_IncomingY(dt, x, y, scenario, params, integrator_name, inputs, nr) ==
    IF nr.err # "none" THEN StepFail(nr.err, x, y)
    ELSE Only({RunStepFinish(x, y, scenario, inputs, nr, integ) :
                integ \in {StepIntegrate(dt, x, y, params, inputs, integrator_name)}})

RunStepFromNR(dt, x, y, scenario, params, integrator_name, inputs, nr) ==
    IF nr.err # "none" THEN StepFail(nr.err, x, y)
    ELSE Only({RunStepFinish(x, y, scenario, inputs, nr, integ) :
                integ \in {StepIntegrate(dt, x, nr.y, params, inputs, integrator_name)}})

RunStepFromInputs(dt, x, y, scenario, params, integrator_name, inputs) ==
    Only({RunStepFromNR(dt, x, y, scenario, params, integrator_name, inputs, nr) :
            nr \in {NewtonRaphson("g_residual", x, y, params, inputs, NoKw)}})

\* run_step(t, dt, x, y, scenario, params, integrator_name)
RunStepChecked(dt, x, y, scenario, params, integrator_name) ==
    IF integrator_name # PyNone /\ integrator_name \notin SupportedIntegrators
    THEN StepFail("ValueError", x, y)
    ELSE IF ComputeCurrentReferencesErr(scenario) # "none"
    THEN StepFail(ComputeCurrentReferencesErr(scenario), x, y)
    ELSE IF ~({"id", "iq"} \subseteq Keys(x))
    THEN StepFail("KeyError", x, y)
    ELSE Only({RunStepFromInputs(dt, x, y, scenario, params, integrator_name, inputs) :
                inputs \in {StepInputs(x, scenario, params)}})

RunStep(t, dt, x, y, scenario, params, integrator_name) ==
    Only({RunStepChecked(h, a, b, sc, p, name) :
            h \in {dt}, a \in {x}, b \in {y}, sc \in {scenario}, p \in {params},
            name \in {integrator_name}})

(***************************************************************************)
(* Scenario loader (io/scenario.py)                                        *)
(***************************************************************************)
\* load_scenario(config): "none" or the ValueError it raises
LoadScenarioErr(config) ==
    IF ~({"control_mode", "v_pcc_d", "v_pcc_q"} \subseteq DOMAIN config) THEN "ValueError"
    ELSE IF config.control_mode = "PQ"
    THEN IF {"P_ref", "Q_ref"} \subseteq DOMAIN config THEN "none" ELSE "ValueError"
    ELSE IF config.control_mode = "VdcQ"
    THEN IF {"id_ref", "iq_ref"} \subseteq DOMAIN config THEN "none" ELSE "ValueError"
    ELSE "ValueError"

\* load_parameters(config): "none" or the ValueError it raises; the dict
\* it returns has the entries of config
RequiredParams == {"L", "R", "Cdc", "omega", "V_max", "Kp_id", "Kp_iq"}
LoadParametersErr(config) ==
    IF RequiredParams \subseteq DOMAIN config THEN "none" ELSE "ValueError"

\* load_initial_conditions(config): each state and algebraic variable is
\* taken from the sub-dict "x0" / "y0", else from config itself, else 0.0
IcValue(config, group, name) ==
    IF group \in DOMAIN config /\ name \in DOMAIN config[group] THEN config[group][name]
    ELSE IF name \in DOMAIN config THEN config[name]
    ELSE Zero
LoadInitialConditions(config) ==
    [x0 |-> [i \in DOMAIN STATE_KEYS |->
                <<STATE_KEYS[i], IcValue(config, "x0", STATE_KEYS[i])>>],
     y0 |-> [i \in DOMAIN ALGEBRAIC_KEYS |->
                <<ALGEBRAIC_KEYS[i], IcValue(config, "y0", ALGEBRAIC_KEYS[i])>>]]

(***************************************************************************)
(* Adaptive time step (solver/timestepper.py) and the adaptive driver      *)
(* (solver/simulation.py, run_simulation_adaptive)                         *)
(***************************************************************************)
\* the stepper as run_simulation_adaptive constructs it
Safety == <<9, 10>>
GrowthFactorMax == <<2, 1>>
ShrinkFactorNone == <<1, 1>>
ShrinkFactorMin == <<1, 2>>

\* resolution of the step size: the product self.dt * factor is rounded
\* down to a multiple of 1/DtGrid, as the float product is rounded to a
\* representable number
DtBits == 3
DtGrid == 2^DtBits

\* a clamp without the upper limit
ClampDt_LowerOnly(dt, dt_min, dt_max) == IF RLt(dt, dt_min) THEN dt_min ELSE dt

\* AdaptiveTimestepper.clamp_dt
ClampDt(dt, dt_min, dt_max) ==
    IF RLt(dt_max, dt)
    THEN (IF RLt(dt_max, dt_min) THEN dt_min ELSE dt_max)
    ELSE (IF RLt(dt, dt_min) THEN dt_min ELSE dt)

\* the argument checks of AdaptiveTimestepper.update
TsUpdateErr(error_estimate, tol) ==
    IF RLe(tol, Zero) THEN "ValueError"
    ELSE IF RLt(error_estimate, Zero) THEN "ValueError"
    ELSE "none"

\* self.dt *= factor, with
\*   factor = max(shrink_factor_min, min(growth_factor_max, f)),
\*   f = growth_factor_max                      when error_estimate = 0,
\*   f = safety * (tol / error_estimate)^(1/2)  otherwise (order = 2.0).
\* A grid point g is at most dt * factor iff g <= dt * growth_factor_max and
\* (g <= dt * shrink_factor_min or g <= dt * f); the last comparison is made
\* on the squares, as error_estimate <= (dt * safety / g)^2 * tol. The clamp
\* of the ratio to [1e-12, 1e12] leaves factor unchanged, since
\* safety * 1e-6 and safety * 1e6 lie outside the factor limits.
\* whether the grid point k / DtGrid is at most dt * factor
TsFits(k, dt, error_estimate, tol) ==
    \/ RLe(Norm(k, DtGrid), RMul(dt, ShrinkFactorMin))
    \/ error_estimate = Zero
    \/ \E r \in {RDiv(RMul(dt, Safety), Norm(k, DtGrid))} :
            RLe(error_estimate, RMul(RMul(r, r), tol))

\* (factor > 0: the product has the sign of dt and is rounded in magnitude)
TsProduct(dt, error_estimate, tol) ==
    Only({Only({Norm(IF dt[1] < 0 THEN -k ELSE k, DtGrid) :
                    k \in {CHOOSE k \in ok : \A j \in ok : j <= k}}) :
            ok \in {{k \in 0..((d[1] * GrowthFactorMax[1] * DtGrid)
                                    \div (d[2] * GrowthFactorMax[2])) :
                        TsFits(k, d, e, tl)} :
                    d \in {RAbs(dt)}, e \in {error_estimate}, tl \in {tol}}})

\* AdaptiveTimestepper.update: the new self.dt, which is also returned
TsUpdate(dt, dt_min, dt_max, error_estimate, tol) ==
    Only({ClampDt(product, lo, hi) :
            product \in {TsProduct(dt, error_estimate, tol)},
            lo \in {dt_min}, hi \in {dt_max}})

\* dt = ts.current_dt(), clipped to t_end - t
TrialDt_NoClip(t, ts_dt, t_end) == ts_dt
TrialDt(t, ts_dt, t_end) ==
    IF RLt(t_end, RAdd(t, ts_dt)) THEN RSub(t_end, t) ELSE ts_dt

\* error_estimate = max |x_coarse[key] - x_fine[key]| over the keys of x
RECURSIVE ErrorEstimateFrom(_, _, _, _, _)
ErrorEstimateFrom(x, x_coarse, x_fine, i, error_estimate) ==
    IF i > Len(x) THEN error_estimate
    ELSE Only({ErrorEstimateFrom(x, x_coarse, x_fine, i + 1,
                                 IF RLt(error_estimate, err_k) THEN err_k
                                 ELSE error_estimate) :
                err_k \in {RAbs(RSub(Get(x_coarse, x[i][1]), Get(x_fine, x[i][1])))}})

ErrorEstimate(x, x_coarse, x_fine) == ErrorEstimateFrom(x, x_coarse, x_fine, 1, Zero)

\* the acceptance criterion (math.isclose with abs_tol = 1e-15 is equality
\* on the grid)
Accept_TolOnly(error_estimate, tol, new_dt, dt_min) == RLe(error_estimate, tol)
Accept_Always(error_estimate, tol, new_dt, dt_min) == TRUE
Accept(error_estimate, tol, new_dt, dt_min) ==
    RLe(error_estimate, tol) \/ new_dt = dt_min

\* the run_step calls of one trial
TrialCoarse(in, t, dt, x, y) ==
    RunStep(t, dt, x, y, in.scenario, in.params, in.integrator_name)

TrialHalf(in, t, dt, x, y) ==
    RunStep(t, RMul(dt, Half), x, y, in.scenario, in.params, in.integrator_name)

TrialFine_Coarse(in, t, dt, x, y, half) ==
    RunStep(t, dt, x, y, in.scenario, in.params, in.integrator_name)
\* a second half-step that restarts from the current x and y
TrialFine_FromStart(in, t, dt, x, y, half) ==
    RunStep(RAdd(t, RMul(dt, Half)), RMul(dt, Half), x, y,
            in.scenario, in.params, in.integrator_name)
TrialFine(in, t, dt, x, y, half) ==
    RunStep(RAdd(t, RMul(dt, Half)), RMul(dt, Half), half.x, half.y,
            in.scenario, in.params, in.integrator_name)

\* one pass of the while-loop body up to the acceptance decision
TrialFail(e) ==
    [err |-> e, dt |-> Zero, x_fine |-> <<>>, y_fine |-> <<>>,
     error_estimate |-> Zero, new_dt |-> Zero, accept |-> FALSE]

TrialFromUpdate(in, dt, fine, error_estimate, new_dt) ==
    [err |-> "none", dt |-> dt, x_fine |-> fine.x, y_fine |-> fine.y,
     error_estimate |-> error_estimate, new_dt |-> new_dt,
     accept |-> Accept(error_estimate, in.tol, new_dt, in.dt_min)]

TrialFromError(in, run, dt, fine, error_estimate) ==
    IF TsUpdateErr(error_estimate, in.tol) # "none"
    THEN TrialFail(TsUpdateErr(error_estimate, in.tol))
    ELSE Only({TrialFromUpdate(in, dt, fine, error_estimate, new_dt) :
                new_dt \in {TsUpdate(run.ts_dt, in.dt_min, in.dt_max,
                                     error_estimate, in.tol)}})

TrialFromFine(in, run, dt, coarse, fine) ==
    IF fine.err # "none" THEN TrialFail(fine.err)
    ELSE Only({TrialFromError(in, run, dt, fine, error_estimate) :
                error_estimate \in {ErrorEstimate(run.x, coarse.x, fine.x)}})

TrialFromHalf(in, run, dt, coarse, half) ==
    IF half.err # "none" THEN TrialFail(half.err)
    ELSE Only({TrialFromFine(in, run, dt, coarse, fine) :
                fine \in {TrialFine(in, run.t, dt, run.x, run.y, half)}})

TrialFromCoarse(in, run, dt, coarse) ==
    IF coarse.err # "none" THEN TrialFail(coarse.err)
    ELSE Only({TrialFromHalf(in, run, dt, coarse, half) :
                half \in {TrialHalf(in, run.t, dt, run.x, run.y)}})

TrialFromDt(in, run, dt) ==
    Only({TrialFromCoarse(in, run, dt, coarse) :
            coarse \in {TrialCoarse(in, run.t, dt, run.x, run.y)}})

AdaptiveTrial(in, run) ==
    Only({TrialFromDt(in, run, dt) : dt \in {TrialDt(run.t, run.ts_dt, in.t_end)}})

(***************************************************************************)
(* State                                                                   *)
(***************************************************************************)
VARIABLES
    lsJ, lsR, lsOut,    \* _solve_linear_system: arguments and outcome
    igIn, igOut,        \* one integrator step: arguments and outcome
    rsIn, rsOut,        \* one run_step call: arguments and outcome
    adIn,               \* run_simulation_adaptive: arguments
    adPc,               \* ... its position: "start", "loop", "returned", "raised"
    adRun,              \* ... its locals t, x, y, steps, ts.dt and the histories
    adOut,              \* ... the exception it raised, "none" until then
    adLog,              \* ... the last adaptive_step_eval log record; retry
                        \*     tells that the trial before it was rejected
    nrIn,               \* newton_raphson: arguments
    nrPc,               \* ... its position: "start", "loop", "returned", "raised"
    nrHeap,             \* ... the dict objects it can reach, by object id
    nrLoc,              \* ... its locals and the counts of what it has called
    nrOut,              \* ... the exception it raised, "none" until then
    owIn,               \* a caller's call of one engine function: its arguments
    owPc,               \* ... "start", "loop", "returned", "raised", "written"
    owHeap,             \* ... the mapping objects by identity, and the next
                        \*     free identity
    owRun,              \* ... the references the callee and the caller hold
    fxIn,               \* api run_simulation (fixed step): arguments
    fxPc,               \* ... its position: "start", "loop", "returned", "raised"
    fxRun,              \* ... its locals, the series and the run_step call count
    fxOut,              \* ... the exception it raised, "none" until then
    tsObj,              \* an AdaptiveTimestepper: its fields dt, dt_min, dt_max
    tsPc,               \* ... what its caller does: "mixed", "low", "high" errors
    tsLast,             \* ... the last update call: dt before it, dt returned
    satIn,              \* apply_voltage_saturation: arguments (floats)
    satOut,             \* ... the results of applying it once and once more
    btIn,               \* the run_batch call: cases, parallel, max_workers
    btPc,               \* position inside run_batch
    btBusy,             \* indices of the cases the pool workers are running
    btDone,             \* <<index, BatchResult>> in order of completion
    btOut               \* the returned list, or the exception raised

lsVars == <<lsJ, lsR, lsOut>>
igVars == <<igIn, igOut>>
rsVars == <<rsIn, rsOut>>
adVars == <<adIn, adPc, adRun, adOut, adLog>>
nrVars == <<nrIn, nrPc, nrHeap, nrLoc, nrOut>>
owVars == <<owIn, owPc, owHeap, owRun>>
fxVars == <<fxIn, fxPc, fxRun, fxOut>>
tsVars == <<tsObj, tsPc, tsLast>>
satVars == <<satIn, satOut>>
btVars == <<btIn, btPc, btBusy, btDone, btOut>>
vars == <<lsVars, igVars, rsVars, adVars, nrVars, owVars, fxVars, tsVars, satVars, btVars>>

LinIdle == lsJ = <<>> /\ lsR = <<>> /\ lsOut = <<>>
IntIdle == igIn = <<>> /\ igOut = <<>>
StepIdle == rsIn = <<>> /\ rsOut = <<>>
AdIdle == adIn = <<>> /\ adPc = "idle" /\ adRun = <<>> /\ adOut = <<>> /\ adLog = <<>>
NrIdle == nrIn = <<>> /\ nrPc = "idle" /\ nrHeap = <<>> /\ nrLoc = <<>> /\ nrOut = <<>>
OwIdle == owIn = <<>> /\ owPc = "idle" /\ owHeap = <<>> /\ owRun = <<>>
FxIdle == fxIn = <<>> /\ fxPc = "idle" /\ fxRun = <<>> /\ fxOut = <<>>
TsIdle == tsObj = <<>> /\ tsPc = "idle" /\ tsLast = <<>>
SatIdle == satIn = <<>> /\ satOut = <<>>
BtIdle == btIn = <<>> /\ btPc = "idle" /\ btBusy = <<>> /\ btDone = <<>> /\ btOut = <<>>

\* the variables of the other specifications, for each specification
linRest == <<igVars, rsVars, adVars, nrVars, owVars, fxVars, tsVars, satVars, btVars>>
intRest == <<lsVars, rsVars, adVars, nrVars, owVars, fxVars, tsVars, satVars, btVars>>
stepRest == <<lsVars, igVars, adVars, nrVars, owVars, fxVars, tsVars, satVars, btVars>>
adRest == <<lsVars, igVars, rsVars, nrVars, owVars, fxVars, tsVars, satVars, btVars>>
nrRest == <<lsVars, igVars, rsVars, adVars, owVars, fxVars, tsVars, satVars, btVars>>
LinRestIdle == IntIdle /\ StepIdle /\ AdIdle /\ NrIdle /\ OwIdle /\ FxIdle /\ TsIdle /\ SatIdle /\ BtIdle
IntRestIdle == LinIdle /\ StepIdle /\ AdIdle /\ NrIdle /\ OwIdle /\ FxIdle /\ TsIdle /\ SatIdle /\ BtIdle
StepRestIdle == LinIdle /\ IntIdle /\ AdIdle /\ NrIdle /\ OwIdle /\ FxIdle /\ TsIdle /\ SatIdle /\ BtIdle
AdRestIdle == LinIdle /\ IntIdle /\ StepIdle /\ NrIdle /\ OwIdle /\ FxIdle /\ TsIdle /\ SatIdle /\ BtIdle
NrRestIdle == LinIdle /\ IntIdle /\ StepIdle /\ AdIdle /\ OwIdle /\ FxIdle /\ TsIdle /\ SatIdle /\ BtIdle
owRest == <<lsVars, igVars, rsVars, adVars, nrVars, fxVars, tsVars, satVars, btVars>>
OwRestIdle == LinIdle /\ IntIdle /\ StepIdle /\ AdIdle /\ NrIdle /\ FxIdle /\ TsIdle /\ SatIdle /\ BtIdle
fxRest == <<lsVars, igVars, rsVars, adVars, nrVars, owVars, tsVars, satVars, btVars>>
FxRestIdle == LinIdle /\ IntIdle /\ StepIdle /\ AdIdle /\ NrIdle /\ OwIdle /\ TsIdle /\ SatIdle /\ BtIdle
tsRest == <<lsVars, igVars, rsVars, adVars, nrVars, owVars, fxVars, satVars, btVars>>
TsRestIdle == LinIdle /\ IntIdle /\ StepIdle /\ AdIdle /\ NrIdle /\ OwIdle /\ FxIdle /\ SatIdle /\ BtIdle
satRest == <<lsVars, igVars, rsVars, adVars, nrVars, owVars, fxVars, tsVars, btVars>>
SatRestIdle == LinIdle /\ IntIdle /\ StepIdle /\ AdIdle /\ NrIdle /\ OwIdle /\ FxIdle /\ TsIdle /\ BtIdle
btRest == <<lsVars, igVars, rsVars, adVars, nrVars, owVars, fxVars, tsVars, satVars>>
BtRestIdle == LinIdle /\ IntIdle /\ StepIdle /\ AdIdle /\ NrIdle /\ OwIdle /\ FxIdle /\ TsIdle /\ SatIdle

(***************************************************************************)
(* The linear solver applied to small systems                              *)
(***************************************************************************)
MaxEntry == 1
SysDims == {2, 3}
EntrySet == {R(e) : e \in 0..MaxEntry} \cup {R(-1)}
RhsSet(n) == {[i \in 1..n |-> R(1)], [i \in 1..n |-> R(i - 2)]}

LinInit ==
    /\ \E n \in SysDims :
        /\ lsJ \in [1..n -> [1..n -> EntrySet]]
        /\ lsR \in RhsSet(n)
    /\ lsOut = [err |-> "pending", delta |-> <<>>]
    /\ LinRestIdle

LinSolve ==
    /\ lsOut.err = "pending"
    /\ lsOut' = SolveLinearSystem(lsJ, lsR)
    /\ UNCHANGED <<lsJ, lsR, linRest>>

LinNext == LinSolve

SpecLin == LinInit /\ [][LinNext]_vars

\* determinant and matrix-vector product, used to state the contract
Det2(m) == RSub(RMul(m[1][1], m[2][2]), RMul(m[1][2], m[2][1]))
Det3(m) ==
    RAdd(RSub(RMul(m[1][1], RSub(RMul(m[2][2], m[3][3]), RMul(m[2][3], m[3][2]))),
              RMul(m[1][2], RSub(RMul(m[2][1], m[3][3]), RMul(m[2][3], m[3][1])))),
         RMul(m[1][3], RSub(RMul(m[2][1], m[3][2]), RMul(m[2][2], m[3][1]))))
Det(m) == IF Len(m) = 2 THEN Det2(m) ELSE Det3(m)
MatVec(m, v) == [i \in 1..Len(v) |-> RowTail(m[i], v, 1, Len(v))]

\* C7: the linear solver returns delta with J*delta = -r for every
\* nonsingular J (zero diagonal entries included) and raises the singular
\* matrix error only for a rank-deficient J.
C7_PivotingSolves ==
    lsOut.err # "pending" =>
        /\ (Det(lsJ) # Zero =>
                /\ lsOut.err = "none"
                /\ MatVec(lsJ, lsOut.delta) = [i \in 1..Len(lsR) |-> RNeg(lsR[i])])
        /\ (lsOut.err = "ZeroDivisionError" => Det(lsJ) = Zero)

(***************************************************************************)
(* One integrator step on a generic state / derivative mapping             *)
(***************************************************************************)
MaxVal == 1
Schemes == {PyNone} \cup SupportedIntegrators
KeyOrders == {<<"id">>, <<"id", "iq">>, <<"iq", "id">>, <<"id", "iq", "Vdc">>}
DictsOver(keys, vals) ==
    {[i \in DOMAIN keys |-> <<keys[i], v[i]>>] : v \in [DOMAIN keys -> vals]}
ValSet == {R(v) : v \in 0..MaxVal} \cup {R(-1)}

IntInit ==
    /\ \E skeys \in KeyOrders, dkeys \in KeyOrders, scheme \in Schemes,
          dt \in {Half, One} :
        /\ \E state \in DictsOver(skeys, ValSet), table \in DictsOver(dkeys, {One, R(-1)}) :
            igIn = [scheme |-> scheme, state |-> state, table |-> table, dt |-> dt]
    /\ igOut = [err |-> "pending", x |-> <<>>]
    /\ IntRestIdle

\* the legacy path hands step_forward the derivative mapping; the RK path
\* hands the integrator the callable
IntStep ==
    /\ igOut.err = "pending"
    /\ igOut' = IF igIn.scheme = PyNone
                THEN StepForward(igIn.state, Rhs("table", igIn.state, igIn), igIn.dt)
                ELSE IntegratorStep(igIn.scheme, "table", igIn.state, igIn.dt, igIn)
    /\ UNCHANGED <<igIn, intRest>>

IntNext == IntStep

SpecInt == IntInit /\ [][IntNext]_vars

\* C8: every integration scheme (step_forward, RK1, RK2, RK4) raises a
\* missing-derivative error when the derivative mapping lacks a key of the
\* state; none substitutes a default derivative and returns a state.
C8_MissingDerivativeRaises ==
    (igOut.err # "pending" /\ ~(Keys(igIn.state) \subseteq Keys(igIn.table)))
        => igOut.err = "KeyError"

(***************************************************************************)
(* One run_step call                                                       *)
(***************************************************************************)
StepParams ==
    {[L |-> R(l), R |-> One, Cdc |-> R(2), omega |-> One, V_max |-> R(vm),
      Kp_id |-> R(kp[1]), Kp_iq |-> R(kp[2])] :
        l \in {1, 2}, vm \in {1, 5}, kp \in {<<0, 0>>, <<1, 1>>, <<2, 1>>}}

PccSet == {<<Zero, Zero>>, <<One, Zero>>, <<One, One>>}

StepScenarios ==
    {[control_mode |-> "PQ", v_pcc_d |-> v[1], v_pcc_q |-> v[2],
      P_ref |-> pq[1], Q_ref |-> pq[2]] :
        v \in PccSet, pq \in {<<Zero, Zero>>, <<R(3), Zero>>, <<R(3), R(3)>>}}
    \cup
    {[control_mode |-> "VdcQ", v_pcc_d |-> v[1], v_pcc_q |-> v[2],
      id_ref |-> r[1], iq_ref |-> r[2]] :
        v \in PccSet, r \in {<<Zero, Zero>>, <<R(3), R(4)>>}}
    \cup
    {[control_mode |-> "Droop", v_pcc_d |-> v[1], v_pcc_q |-> v[2],
      P_ref |-> R(3), Q_ref |-> Zero] : v \in PccSet}

StepX == {MkX(R(a), R(b), R(c)) : a \in 0..MaxVal, b \in {0, -1}, c \in 0..(MaxVal + 1)}
StepY == {MkY(Zero, Zero, Zero), MkY(One, ThreeHalves, One)}
StepIntegrators == Schemes \cup {"rk3"}

StepInit ==
    /\ rsIn \in [dt : {Half, One}, x : StepX, y : StepY, scenario : StepScenarios,
                 params : StepParams, integrator_name : StepIntegrators]
    /\ rsOut = [err |-> "pending"]
    /\ StepRestIdle

StepCall ==
    /\ rsOut.err = "pending"
    /\ rsOut' = RunStep(Zero, rsIn.dt, rsIn.x, rsIn.y, rsIn.scenario, rsIn.params,
                        rsIn.integrator_name)
    /\ UNCHANGED <<rsIn, stepRest>>

StepNext == StepCall

SpecStep == StepInit /\ [][StepNext]_vars

\* the case of C9: PQ mode, zero references, zero currents, zero gains
ZeroPowerCase ==
    /\ rsOut.err # "pending"
    /\ rsIn.integrator_name \in Schemes
    /\ rsIn.scenario.control_mode = "PQ"
    /\ rsIn.scenario.P_ref = Zero /\ rsIn.scenario.Q_ref = Zero
    /\ Get(rsIn.x, "id") = Zero /\ Get(rsIn.x, "iq") = Zero
    /\ Get(rsIn.x, "Vdc") # Zero
    /\ rsIn.params.Kp_id = Zero /\ rsIn.params.Kp_iq = Zero

VdcByIdc ==
    Get(rsOut.x, "Vdc") =
        RAdd(Get(rsIn.x, "Vdc"),
             RDiv(RMul(rsIn.dt, Get(rsOut.y, "Idc")), rsIn.params.Cdc))

\* C9 as stated: in the zero-power case run_step returns id_next = 0 and
\* iq_next = 0 for every PCC voltage, and Vdc_next = Vdc + dt*Idc_next/Cdc.
C9_ZeroPowerKeepsCurrents ==
    ZeroPowerCase =>
        /\ rsOut.err = "none"
        /\ Get(rsOut.x, "id") = Zero
        /\ Get(rsOut.x, "iq") = Zero
        /\ VdcByIdc

\* C9 amended: in the zero-power case run_step returns normally with
\* Vdc_next = Vdc + dt*Idc_next/Cdc; id and iq stay at 0 when the PCC
\* voltage is zero, and with the Euler schemes (None, "euler", "rk1") they
\* become id_next = -dt*v_pcc_d/L and iq_next = -dt*v_pcc_q/L.
C9_ZeroPowerStep ==
    ZeroPowerCase =>
        /\ rsOut.err = "none"
        /\ VdcByIdc
        /\ (rsIn.scenario.v_pcc_d = Zero /\ rsIn.scenario.v_pcc_q = Zero
                => Get(rsOut.x, "id") = Zero /\ Get(rsOut.x, "iq") = Zero)
        /\ (rsIn.integrator_name \in {PyNone, "euler", "rk1"}
                => /\ Get(rsOut.x, "id") =
                        RNeg(RDiv(RMul(rsIn.dt, rsIn.scenario.v_pcc_d), rsIn.params.L))
                   /\ Get(rsOut.x, "iq") =
                        RNeg(RDiv(RMul(rsIn.dt, rsIn.scenario.v_pcc_q), rsIn.params.L)))

C9_Witness ==
    /\ ZeroPowerCase
    /\ rsOut.err = "none"
    /\ rsIn.scenario.v_pcc_d = One
    /\ rsIn.integrator_name = PyNone
    /\ Get(rsOut.x, "id") # Zero

\* C10: a scenario whose control_mode is neither "PQ" nor "VdcQ" never
\* produces a simulation step: load_scenario raises, and run_step /
\* compute_current_references raise when it reaches them directly.
C10_UnsupportedModeRaises ==
    (rsOut.err # "pending" /\ rsIn.scenario.control_mode \notin {"PQ", "VdcQ"})
        => /\ LoadScenarioErr(rsIn.scenario) = "ValueError"
           /\ rsOut.err # "none"

(***************************************************************************)
(* run_simulation_adaptive                                                 *)
(***************************************************************************)
MaxSteps == 3

AdParams ==
    {[L |-> l, R |-> One, Cdc |-> R(2), omega |-> Zero, V_max |-> R(5),
      Kp_id |-> Zero, Kp_iq |-> Zero] : l \in {<<1, 8>>, <<1, 16>>}}

AdScenarios ==
    {[control_mode |-> "VdcQ", v_pcc_d |-> Zero, v_pcc_q |-> Zero,
      id_ref |-> Zero, iq_ref |-> Zero]}

AdX == {MkX(One, Zero, One), MkX(One, R(-1), R(2)), MkX(Zero, R(-1), Zero)}
AdIntegrators == {PyNone, "euler", "rk2", "rk3"}
AdDtInitial == {<<1, 8>>, Half, <<3, 4>>, R(2)}
AdTols == {Zero, <<1, 64>>, Half, R(64)}

NoRun ==
    [t |-> Zero, x |-> <<>>, y |-> <<>>, steps |-> 0, ts_dt |-> Zero,
     times |-> <<>>, x_history |-> <<>>, y_history |-> <<>>, dt_history |-> <<>>]

NoLog ==
    [event |-> "none", t |-> Zero, dt |-> Zero, error |-> Zero, new_dt |-> Zero,
     accept |-> FALSE, retry |-> FALSE]

\* the argument tuples of the calls: dt_initial > 0, 0 < dt_min <= dt_max,
\* and t_end on either side of t0
AdArgs ==
    [t0 : {Zero, One}, t_end : {One, R(2)}, x0 : AdX, y0 : {MkY(Zero, Zero, Zero)},
     scenario : AdScenarios, params : AdParams, integrator_name : AdIntegrators,
     dt_initial : AdDtInitial, dt_min : {<<1, 4>>, Half}, dt_max : {Half, One},
     tol : AdTols, max_steps : {1, MaxSteps}]

\* before the call
AdInit ==
    /\ adIn = <<>>
    /\ adPc = "start"
    /\ adRun = NoRun
    /\ adOut = "none"
    /\ adLog = NoLog
    /\ AdRestIdle

AdFrame == UNCHANGED adRest

\* a call with t_end <= t0
AdStartRaise ==
    /\ adPc = "start"
    /\ adIn' \in AdArgs
    /\ RLe(adIn'.t_end, adIn'.t0)
    /\ adPc' = "raised"
    /\ adOut' = "ValueError"
    /\ UNCHANGED <<adRun, adLog>>
    /\ AdFrame

\* a call with t0 < t_end: the histories, t, x, y, the stepper and the
\* step counter
AdStart ==
    /\ adPc = "start"
    /\ adIn' \in AdArgs
    /\ ~RLe(adIn'.t_end, adIn'.t0)
    /\ adRun' = [t |-> adIn'.t0, x |-> adIn'.x0, y |-> adIn'.y0, steps |-> 0,
                 ts_dt |-> adIn'.dt_initial,
                 times |-> <<adIn'.t0>>, x_history |-> <<adIn'.x0>>,
                 y_history |-> <<adIn'.y0>>, dt_history |-> <<>>]
    /\ adPc' = "loop"
    /\ UNCHANGED <<adOut, adLog>>
    /\ AdFrame

\* while t < t_end and steps < max_steps
InLoop ==
    /\ adPc = "loop"
    /\ RLt(adRun.t, adIn.t_end)
    /\ adRun.steps < adIn.max_steps

LogOf(tr) ==
    [event |-> "adaptive_step_eval", t |-> adRun.t, dt |-> tr.dt,
     error |-> tr.error_estimate, new_dt |-> tr.new_dt, accept |-> tr.accept,
     retry |-> (adLog.event = "adaptive_step_eval" /\ ~adLog.accept)]

\* a run_step call or ts.update raises: the exception leaves the function
RaisedWith(tr) ==
    /\ tr.err # "none"
    /\ adPc' = "raised"
    /\ adOut' = tr.err
    /\ UNCHANGED <<adRun, adLog>>

\* if accept: advance with the fine solution and record the step
AcceptedWith(tr) ==
    /\ tr.err = "none"
    /\ tr.accept
    /\ adRun' = [t |-> RAdd(adRun.t, tr.dt), x |-> tr.x_fine, y |-> tr.y_fine,
                 steps |-> adRun.steps + 1, ts_dt |-> tr.new_dt,
                 times |-> Append(adRun.times, RAdd(adRun.t, tr.dt)),
                 x_history |-> Append(adRun.x_history, tr.x_fine),
                 y_history |-> Append(adRun.y_history, tr.y_fine),
                 dt_history |-> Append(adRun.dt_history, tr.dt)]
    /\ adLog' = LogOf(tr)
    /\ UNCHANGED <<adPc, adOut>>

\* else: continue, only the stepper has changed
RejectedWith(tr) ==
    /\ tr.err = "none"
    /\ ~tr.accept
    /\ adRun' = [adRun EXCEPT !.ts_dt = tr.new_dt]
    /\ adLog' = LogOf(tr)
    /\ UNCHANGED <<adPc, adOut>>

\* one pass of the loop body
AdTrial ==
    /\ InLoop
    /\ \E tr \in {AdaptiveTrial(adIn, adRun)} :
        IF tr.err # "none" THEN RaisedWith(tr)
        ELSE IF tr.accept THEN AcceptedWith(tr)
        ELSE RejectedWith(tr)
    /\ UNCHANGED adIn
    /\ AdFrame

\* after the loop: if steps >= max_steps: raise RuntimeError
AdRaiseBudget ==
    /\ adPc = "loop"
    /\ ~(RLt(adRun.t, adIn.t_end) /\ adRun.steps < adIn.max_steps)
    /\ adRun.steps >= adIn.max_steps
    /\ adPc' = "raised"
    /\ adOut' = "RuntimeError"
    /\ UNCHANGED <<adRun, adLog>>
    /\ UNCHANGED adIn
    /\ AdFrame

\* return times, x_history, y_history, dt_history
AdReturn ==
    /\ adPc = "loop"
    /\ ~(RLt(adRun.t, adIn.t_end) /\ adRun.steps < adIn.max_steps)
    /\ adRun.steps < adIn.max_steps
    /\ adPc' = "returned"
    /\ UNCHANGED <<adRun, adOut, adLog>>
    /\ UNCHANGED adIn
    /\ AdFrame

Next ==
    \/ AdStartRaise
    \/ AdStart
    \/ AdTrial
    \/ AdRaiseBudget
    \/ AdReturn

Spec == AdInit /\ [][Next]_vars

\* the function runs to its end: no step that can be taken is postponed
\* forever
FairSpec == Spec /\ WF_vars(Next)

AdDone == adPc \in {"returned", "raised"}

Started == adRun.times # <<>>

\* C1: every entry of dt_history (the dt of every accepted step, the first
\* and the last included) lies within [dt_min, dt_max], for any t0 < t_end,
\* dt_initial > 0 and 0 < dt_min <= dt_max.
C1_AcceptedDtWithinLimits ==
    \A i \in DOMAIN adRun.dt_history :
        /\ RLe(adIn.dt_min, adRun.dt_history[i])
        /\ RLe(adRun.dt_history[i], adIn.dt_max)

\* C2: the budget-exhaustion error is raised exactly when max_steps accepted
\* steps have been taken and t has not reached t_end; a run whose time
\* reaches t_end, on the max_steps-th accepted step included, returns.
C2_BudgetErrorOnlyShortOfEnd ==
    (AdDone /\ Started) =>
        /\ (adOut = "RuntimeError" <=>
                (adRun.steps = adIn.max_steps /\ RLt(adRun.t, adIn.t_end)))
        /\ (RLe(adIn.t_end, adRun.t) => adPc = "returned" /\ adOut = "none")

\* a pass of the loop body that ran to its end: the loop goes on and a local
\* has changed
TrialDone == adPc = "loop" /\ adPc' = "loop" /\ adRun' # adRun

\* the error estimate of the trial made in the current state, from the
\* three run_step calls
CoarseNow ==
    RunStep(adRun.t, TrialDt(adRun.t, adRun.ts_dt, adIn.t_end), adRun.x, adRun.y,
            adIn.scenario, adIn.params, adIn.integrator_name)

HalfNow ==
    RunStep(adRun.t, RMul(TrialDt(adRun.t, adRun.ts_dt, adIn.t_end), Half),
            adRun.x, adRun.y, adIn.scenario, adIn.params, adIn.integrator_name)

FineFrom(half) ==
    RunStep(RAdd(adRun.t, RMul(TrialDt(adRun.t, adRun.ts_dt, adIn.t_end), Half)),
            RMul(TrialDt(adRun.t, adRun.ts_dt, adIn.t_end), Half),
            half.x, half.y, adIn.scenario, adIn.params, adIn.integrator_name)

ErrorNow == ErrorEstimate(adRun.x, CoarseNow.x, FineFrom(HalfNow).x)

DictCopy_Alias(heap, src, id) == [heap |-> heap, ref |-> src]

\* dict(d): a new object id holding the entries of the object src
DictCopy(heap, src, id) == [heap |-> (id :> heap[src]) @@ heap, ref |-> id]

\* a write through a reference: every value of the dict is set to 0.0
Zeroed(d) == [k \in DOMAIN d |-> <<d[k][1], Zero>>]

\* an optional keyword or params entry: <<>> when absent, <<v>> when given
Opt(key, o) == IF Len(o) = 0 THEN NoKw ELSE (key :> o[1])
Optional(S) == {<<>>} \cup {<<v>> : v \in S}

\* largest max_iter keyword; also the number of Newton updates of the scalar
\* problem whose iterates fit the integer width
NrMaxIter == 3
Hundredth == <<1, 100>>

NrKw ==
    {Opt("tol", t) @@ Opt("max_iter", m) @@ Opt("norm", n) :
        t \in Optional({R(-1), Hundredth, R(3)}),
        m \in Optional((-1)..NrMaxIter),
        n \in Optional({"l2"})}
NrParams ==
    {Opt("nr_tol", t) @@ Opt("nr_max_iter", m) @@ Opt("nr_norm", n) :
        t \in Optional({R(3)}), m \in Optional({1}), n \in Optional({"l2", "max"})}
NrInputs == [v_pcc_d |-> One, v_pcc_q |-> One]
\* the mapping y with its keys inserted in the given order
InKeyOrder(y, order) == [i \in DOMAIN order |-> <<order[i], Get(y, order[i])>>]
KeyOrder(y) == [i \in DOMAIN y |-> y[i][1]]

\* a y0 whose keys are not in the order Idc, P_ac, Q_ac
NrReorderedY == {InKeyOrder(MkY(One, ThreeHalves, One), <<"P_ac", "Idc", "Q_ac">>)}

NrProblems ==
    {[kind |-> "g_residual", x |-> x, y0 |-> y0] :
        x \in {MkX(One, R(-1), R(2)), MkX(One, Zero, Zero)},
        y0 \in StepY \cup NrReorderedY}
    \cup
    {[kind |-> "scalar", x |-> <<>>, y0 |-> y0] :
        y0 \in {<<<<"y", One>>>>, <<<<"y", Zero>>>>, <<<<"z", One>>>>}}

\* largest max_iter of a problem with reordered keys
NrReorderedPasses == 2

\* the scalar problem, and the problem with reordered keys, are run only as
\* far as their iterates fit the integer width
NrRepresentable(problem, cfg) ==
    /\ problem.kind = "scalar" => (cfg.max_iter <= NrMaxIter \/ RLe(Hundredth, cfg.tol))
    /\ problem.y0 \in NrReorderedY => cfg.max_iter <= NrReorderedPasses

\* a log record that holds the working dict y itself
LogRecordY_Shared(heap, y) == [heap |-> heap, ref |-> y]

\* the "y" entry of the log record: dict(y)
LogRecordY(heap, y) == DictCopy(heap, y, "rec_y")

\* a convergence test that never succeeds
NrConverged_Never(g_val, cfg) == FALSE
NrConverged_Always(g_val, cfg) == TRUE

\* res_norm = _vector_norm(g_val, kind=cfg.norm); res_norm <= cfg.tol
NrConverged(g_val, cfg) == VectorNormLe(g_val, cfg.norm, cfg.tol)

\* the loop header with one pass too many
NrInRange_Inclusive(it, max_iter) == it <= max_iter

\* for it in range(cfg.max_iter): whether the index it is in the range
NrInRange(it, max_iter) == it < max_iter

NrInit ==
    /\ nrIn \in {[kind |-> p.kind, x |-> p.x, y0 |-> p.y0, params |-> pa,
                  inputs |-> NrInputs, kw |-> kw, logger |-> lg] :
                    p \in NrProblems, pa \in NrParams, kw \in NrKw,
                    lg \in {"none", "observe", "mutate"}}
    /\ NrRepresentable(nrIn, NRConfigOf(nrIn.params, nrIn.kw))
    /\ nrPc = "start"
    /\ nrHeap = ("y0" :> nrIn.y0)
    /\ nrLoc = [cfg |-> <<>>, y |-> PyNone, it |-> 0, n_iter |-> 0, g_val |-> <<>>,
                converged |-> FALSE, rec |-> <<>>,
                evals |-> 0, logs |-> 0, jacs |-> 0, solves |-> 0, updates |-> 0]
    /\ nrOut = "none"
    /\ NrRestIdle

\* lines 166-190: read the configuration, y = dict(y0), n_iter = 0
NrBegin ==
    /\ nrPc = "start"
    /\ \E c \in {DictCopy(nrHeap, "y0", "y")} :
        /\ nrHeap' = c.heap
        /\ nrLoc' = [nrLoc EXCEPT !.cfg = NRConfigOf(nrIn.params, nrIn.kw), !.y = c.ref]
    /\ nrPc' = "loop"
    /\ UNCHANGED <<nrIn, nrOut, nrRest>>

\* lines 192-196: the next pass of the for-loop evaluates the residual and
\* its norm and sets n_iter = it + 1
NrEvaluate ==
    /\ nrPc = "loop"
    /\ NrInRange(nrLoc.it, nrLoc.cfg.max_iter)
    /\ \E y \in {nrHeap[nrLoc.y]} :
        \E err \in {ResidualErr(nrIn.kind, nrIn.x, y, nrIn.params, nrIn.inputs)} :
            IF err # "none"
            THEN /\ nrPc' = "raised"
                 /\ nrOut' = err
                 /\ nrLoc' = [nrLoc EXCEPT !.evals = @ + 1]
            ELSE \E g_val \in {Residual(nrIn.kind, nrIn.x, y, nrIn.params, nrIn.inputs)} :
                 /\ nrPc' = IF nrIn.logger = "none" THEN "test" ELSE "log"
                 /\ nrOut' = nrOut
                 /\ nrLoc' = [nrLoc EXCEPT !.evals = @ + 1, !.n_iter = nrLoc.it + 1,
                                !.g_val = g_val,
                                !.converged = NrConverged(g_val, nrLoc.cfg)]
    /\ UNCHANGED <<nrIn, nrHeap, nrRest>>

\* lines 198-203: the logger receives a record with the iteration index, the
\* norm and dict(y); an observing logger stores it, a mutating one writes
\* to the mapping it was handed
NrLog ==
    /\ nrPc = "log"
    /\ \E c \in {LogRecordY(nrHeap, nrLoc.y)} :
        /\ nrHeap' = IF nrIn.logger = "mutate"
                     THEN [c.heap EXCEPT ![c.ref] = Zeroed(@)]
                     ELSE c.heap
        /\ nrLoc' = [nrLoc EXCEPT !.logs = @ + 1,
                        !.rec = [iter |-> nrLoc.it, y |-> c.ref]]
    /\ nrPc' = "test"
    /\ UNCHANGED <<nrIn, nrOut, nrRest>>

\* lines 205-206 and 221: res_norm <= cfg.tol breaks out of the loop
NrBreak ==
    /\ nrPc = "test"
    /\ nrLoc.converged
    /\ nrPc' = "returned"
    /\ UNCHANGED <<nrIn, nrHeap, nrLoc, nrOut, nrRest>>

\* the outcome of lines 209-216 on the dict y: Jacobian, residual vector,
\* linear solve, update in place
NrNewtonStep(y) ==
    IF JacobianErr(nrIn.kind, nrIn.x, y, nrIn.params, nrIn.inputs) # "none"
    THEN [err |-> JacobianErr(nrIn.kind, nrIn.x, y, nrIn.params, nrIn.inputs),
          y |-> y, solves |-> 0]
    ELSE IF ~(Keys(y) \subseteq Keys(nrLoc.g_val))
    THEN [err |-> "KeyError", y |-> y, solves |-> 0]
    ELSE Only({[err |-> sol.err,
                y |-> IF sol.err = "none" THEN NRApplyDelta(y, sol.delta) ELSE y,
                solves |-> 1] :
            sol \in {Only({SolveLinearSystem(jac, res) :
                        jac \in {Jacobian(nrIn.kind, nrIn.x, y, nrIn.params, nrIn.inputs)},
                        res \in {NRResidualVector(y, nrLoc.g_val)}})}})

\* lines 208-216: not converged, so y is updated in place
NrNewton ==
    /\ nrPc = "test"
    /\ ~nrLoc.converged
    /\ \E step \in {NrNewtonStep(nrHeap[nrLoc.y])} :
        IF step.err # "none"
        THEN /\ nrPc' = "raised"
             /\ nrOut' = step.err
             /\ nrHeap' = nrHeap
             /\ nrLoc' = [nrLoc EXCEPT !.jacs = @ + 1, !.solves = @ + step.solves]
        ELSE /\ nrPc' = "loop"
             /\ nrOut' = nrOut
             /\ nrHeap' = [nrHeap EXCEPT ![nrLoc.y] = step.y]
             /\ nrLoc' = [nrLoc EXCEPT !.jacs = @ + 1, !.solves = @ + 1,
                            !.updates = @ + 1, !.it = @ + 1]
    /\ UNCHANGED <<nrIn, nrRest>>

\* line 221 after range(cfg.max_iter) is exhausted
NrExhaust ==
    /\ nrPc = "loop"
    /\ ~NrInRange(nrLoc.it, nrLoc.cfg.max_iter)
    /\ nrPc' = "returned"
    /\ UNCHANGED <<nrIn, nrHeap, nrLoc, nrOut, nrRest>>

\* after the return the caller writes to one of the two mappings it holds:
\* the y0 it passed or the y it was returned
NrCallerWrites ==
    /\ nrPc = "returned"
    /\ \E target \in {"y0", nrLoc.y} :
        /\ nrHeap' = [nrHeap EXCEPT ![target] = Zeroed(@)]
        /\ nrLoc' = [nrLoc EXCEPT !.rec = [written |-> target,
                                             y0 |-> nrHeap["y0"],
                                             y |-> nrHeap[nrLoc.y]]]
    /\ nrPc' = "written"
    /\ UNCHANGED <<nrIn, nrOut, nrRest>>

NrNext ==
    \/ NrBegin
    \/ NrEvaluate
    \/ NrLog
    \/ NrBreak
    \/ NrNewton
    \/ NrExhaust
    \/ NrCallerWrites

SpecNR == NrInit /\ [][NrNext]_vars

NrConfigured == nrPc \notin {"idle", "start"}
NrReturned == nrPc \in {"returned", "written"}
\* the mapping newton_raphson returned, as it was at the return
NrReturnedY == IF nrPc = "written" THEN nrLoc.rec.y ELSE nrHeap[nrLoc.y]
\* the same call evaluated as one function, without a logger
NrReference ==
    NewtonRaphson(nrIn.kind, nrIn.x, nrIn.y0, nrIn.params, nrIn.inputs, nrIn.kw)

\* C11, as stated: newton_raphson evaluates the residual at most max_iter
\* times and updates y at most max_iter times, and a call in which no
\* evaluated iterate had a residual norm <= tol raises nothing and returns
\* with the count max_iter.
C11_AtMostMaxIter ==
    NrConfigured =>
        /\ nrLoc.evals <= nrLoc.cfg.max_iter
        /\ nrLoc.updates <= nrLoc.cfg.max_iter
        /\ (nrPc \in {"returned", "written", "raised"} /\ ~nrLoc.converged)
                => /\ nrPc # "raised"
                   /\ nrLoc.n_iter = nrLoc.cfg.max_iter

\* C11, amended: for max_iter >= 0 there are at most max_iter residual
\* evaluations and at most max_iter updates; a call that returns without a
\* converged iterate has evaluated and updated max(max_iter, 0) times,
\* returns that count and the y of the last update; the only exceptions are
\* those of the residual, the Jacobian and the linear solver.
C11_BoundedIterations ==
    NrConfigured =>
        /\ nrLoc.cfg.max_iter >= 0
                => nrLoc.evals <= nrLoc.cfg.max_iter /\ nrLoc.updates <= nrLoc.cfg.max_iter
        /\ (NrReturned /\ ~nrLoc.converged)
                => /\ nrOut = "none"
                   /\ nrLoc.n_iter = (IF nrLoc.cfg.max_iter >= 0 THEN nrLoc.cfg.max_iter ELSE 0)
                   /\ nrLoc.evals = nrLoc.n_iter
                   /\ nrLoc.updates = nrLoc.n_iter
                   /\ NrReturnedY = NrReference.y
        /\ nrPc = "raised" => nrOut \in {"KeyError", "ZeroDivisionError", "IndexError"}

\* a call that used up a budget of several iterations without converging
C11_Witness ==
    /\ nrPc = "returned"
    /\ ~nrLoc.converged
    /\ nrLoc.cfg.max_iter = NrMaxIter
    /\ nrLoc.updates = NrMaxIter
    /\ nrHeap[nrLoc.y] # nrIn.y0

\* the residual norm at the initial guess is at most the effective tol, and
\* the effective max_iter is at least 1
NrInitialGuessSolves ==
    /\ nrPc # "idle"
    /\ NRConfigOf(nrIn.params, nrIn.kw).max_iter >= 1
    /\ ResidualErr(nrIn.kind, nrIn.x, nrIn.y0, nrIn.params, nrIn.inputs) = "none"
    /\ \E cfg \in {NRConfigOf(nrIn.params, nrIn.kw)} :
        VectorNormLe(Residual(nrIn.kind, nrIn.x, nrIn.y0, nrIn.params, nrIn.inputs),
                     cfg.norm, cfg.tol)

\* C12: when the residual norm at y0 is <= tol and max_iter >= 1, the call
\* never evaluates the Jacobian, never calls the linear solver, never updates
\* y and never raises; it evaluates the residual once and returns a y equal
\* to y0 with an iteration count of at most 1.
C12_ConvergedAtInitialGuess ==
    NrInitialGuessSolves =>
        /\ nrLoc.jacs = 0 /\ nrLoc.solves = 0 /\ nrLoc.updates = 0
        /\ nrLoc.evals <= 1
        /\ nrPc # "raised"
        /\ ~(nrPc = "loop" /\ nrLoc.evals = 1)
        /\ NrReturned => (NrReturnedY = nrIn.y0 /\ nrLoc.n_iter <= 1 /\ nrLoc.evals = 1)

\* a call with a nonzero initial guess that already solves the equations
C12_Witness ==
    /\ NrInitialGuessSolves
    /\ nrPc = "returned"
    /\ nrIn.kind = "g_residual"
    /\ nrIn.y0 = MkY(One, ThreeHalves, One)
    /\ nrLoc.n_iter = 1

\* C13: whatever the logger is (absent, observing, or writing to the mapping
\* it receives), the call ends as the call without logger does: the same
\* exception, or the same y and n_iter.  A logger is called once for each
\* residual evaluation, with that iteration's index, after the evaluation
\* and before the update of the iteration.
C13_LoggerDoesNotAffectResult ==
    /\ NrReturned => /\ NrReference.err = "none"
                     /\ NrReturnedY = NrReference.y
                     /\ nrLoc.n_iter = NrReference.n_iter
    /\ nrPc = "raised" => NrReference.err = nrOut
    /\ (NrConfigured /\ nrIn.logger = "none") => nrLoc.logs = 0
    /\ (NrConfigured /\ nrIn.logger # "none") =>
        /\ nrPc = "log" => (nrLoc.logs = nrLoc.evals - 1 /\ nrLoc.updates = nrLoc.logs)
        /\ nrPc = "test" => /\ nrLoc.logs = nrLoc.evals
                            /\ nrLoc.updates = nrLoc.logs - 1
                            /\ nrLoc.rec.iter = nrLoc.it
        /\ nrPc = "loop" => (nrLoc.logs = nrLoc.evals /\ nrLoc.updates = nrLoc.logs)
        /\ NrReturned => nrLoc.logs = nrLoc.evals

\* a call of several iterations whose logger overwrote the y it was handed
C13_Witness ==
    /\ nrPc = "returned"
    /\ nrIn.logger = "mutate"
    /\ nrLoc.updates >= 2
    /\ nrLoc.logs = nrLoc.evals
    /\ nrHeap["rec_y"] = Zeroed(nrHeap[nrLoc.y])
    /\ nrHeap["rec_y"] # nrHeap[nrLoc.y]

\* C14: each effective setting is the keyword when the keyword is given,
\* else the params entry when there is one, else the default (tol 1e-8,
\* max_iter 20, norm "max"), each setting on its own; the loop runs under
\* these settings.
C14_ConfigPrecedence ==
    NrConfigured =>
        /\ "tol" \in DOMAIN nrIn.kw => nrLoc.cfg.tol = nrIn.kw.tol
        /\ ("tol" \notin DOMAIN nrIn.kw /\ "nr_tol" \in DOMAIN nrIn.params)
                => nrLoc.cfg.tol = nrIn.params.nr_tol
        /\ ("tol" \notin DOMAIN nrIn.kw /\ "nr_tol" \notin DOMAIN nrIn.params)
                => nrLoc.cfg.tol = <<1, 100000000>>
        /\ "max_iter" \in DOMAIN nrIn.kw => nrLoc.cfg.max_iter = nrIn.kw.max_iter
        /\ ("max_iter" \notin DOMAIN nrIn.kw /\ "nr_max_iter" \in DOMAIN nrIn.params)
                => nrLoc.cfg.max_iter = nrIn.params.nr_max_iter
        /\ ("max_iter" \notin DOMAIN nrIn.kw /\ "nr_max_iter" \notin DOMAIN nrIn.params)
                => nrLoc.cfg.max_iter = 20
        /\ "norm" \in DOMAIN nrIn.kw => nrLoc.cfg.norm = nrIn.kw.norm
        /\ ("norm" \notin DOMAIN nrIn.kw /\ "nr_norm" \in DOMAIN nrIn.params)
                => nrLoc.cfg.norm = nrIn.params.nr_norm
        /\ ("norm" \notin DOMAIN nrIn.kw /\ "nr_norm" \notin DOMAIN nrIn.params)
                => nrLoc.cfg.norm = "max"
        /\ nrLoc.it <= (IF nrLoc.cfg.max_iter >= 0 THEN nrLoc.cfg.max_iter ELSE 0)
        /\ nrPc = "test"
                => nrLoc.converged = VectorNormLe(nrLoc.g_val, nrLoc.cfg.norm, nrLoc.cfg.tol)

\* a call that used the keyword tol although params has nr_tol, the params
\* entry nr_max_iter for lack of a keyword, and the default norm
C14_Witness ==
    /\ nrPc = "returned"
    /\ DOMAIN nrIn.kw = {"tol"}
    /\ DOMAIN nrIn.params = {"nr_tol", "nr_max_iter"}
    /\ nrIn.kw.tol # nrIn.params.nr_tol
    /\ nrLoc.cfg = [tol |-> nrIn.kw.tol, max_iter |-> nrIn.params.nr_max_iter,
                    norm |-> "max"]
    /\ nrLoc.n_iter = nrIn.params.nr_max_iter
    /\ ~nrLoc.converged

(***************************************************************************)
(* Properties of one run_step call (SpecStep)                              *)
(***************************************************************************)
StepReturned == rsOut # <<>> /\ rsOut.err = "none"

\* stages 1-4 chained by hand from the pre-step x
C15_RefsPre == ComputeCurrentReferences(rsIn.scenario)
C15_VrefPre ==
    ComputeConverterVoltageReferences(C15_RefsPre.id_ref, C15_RefsPre.iq_ref,
                                      rsIn.x, rsIn.params)
C15_SatPre ==
    ApplyVoltageSaturation(C15_VrefPre.v_conv_d_ref, C15_VrefPre.v_conv_q_ref,
                           rsIn.params.V_max)
C15_InputsPre == BuildInputs(rsIn.scenario, C15_SatPre.v_conv_d, C15_SatPre.v_conv_q)
\* f at the pre-step x and a given y, under the inputs the call assembles
C15_F(y) == FRhs(rsIn.x, y, rsIn.params, rsOut.inputs)
C15_EulerFrom(y) ==
    [i \in DOMAIN rsIn.x |->
        <<rsIn.x[i][1],
          RAdd(rsIn.x[i][2], RMul(rsIn.dt, Get(C15_F(y), rsIn.x[i][1])))>>]

\* C15: a run_step call that returns has used the inputs obtained from the
\* pre-step x through external control, inner control, saturation and
\* input assembly in that order; its y_next solves g(x, y_next) = 0 at the
\* pre-step x within the NR tolerance; and with the default integrator
\* x_next[k] = x[k] + dt * f(x, y_next)[k], f taken at y_next.
C15_StageOrder ==
    StepReturned =>
        /\ rsOut.inputs = C15_InputsPre
        /\ VectorNormLe(GResidual(rsIn.x, rsOut.y, rsIn.params, rsOut.inputs),
                        "max", <<1, 100000000>>)
        /\ rsIn.integrator_name = PyNone => rsOut.x = C15_EulerFrom(rsOut.y)

\* a default-integrator step whose y_next differs from the incoming y in
\* Idc, so that f at the incoming y gives another x_next, and whose inputs
\* were saturated
C15_Witness ==
    /\ StepReturned
    /\ rsIn.integrator_name = PyNone
    /\ Get(rsOut.y, "Idc") # Get(rsIn.y, "Idc")
    /\ C15_EulerFrom(rsIn.y) # rsOut.x
    /\ rsOut.x # rsIn.x
    /\ C15_SatPre.v_conv_d # C15_VrefPre.v_conv_d_ref

(***************************************************************************)
(* Object identity: newton_raphson, run_step and run_simulation_adaptive   *)
(* over a heap of mapping objects.  h = [heap, next]: heap maps object     *)
(* identities to values, next is the first unused identity.                *)
(***************************************************************************)
HeapOf(r) == [heap |-> r.heap, next |-> r.next]

\* dict(src) as a new object
HCopy(h, src) ==
    Only({[heap |-> c.heap, next |-> h.next + 1, ref |-> c.ref] :
            c \in {DictCopy(h.heap, src, h.next)}})

\* a mapping built from scratch ({} filled entry by entry)
HNew(h, value) ==
    [heap |-> (h.next :> value) @@ h.heap, next |-> h.next + 1, ref |-> h.next]

\* newton_raphson on the objects x, y0, params: y = dict(y0) is updated in
\* place and returned
NewtonRaphsonH(h, x, y0, params, inputs) ==
    Only({Only({[heap |-> [c.heap EXCEPT ![c.ref] = nr.y], next |-> c.next,
                 err |-> nr.err, y |-> c.ref] :
                    nr \in {NewtonRaphson("g_residual", c.heap[x], c.heap[c.ref],
                                          c.heap[params], inputs, NoKw)}}) :
            c \in {HCopy(h, y0)}})

\* the failures of run_step before the NR solve
RunStepEarlyErr(x, scenario, integrator_name) ==
    IF integrator_name # PyNone /\ integrator_name \notin SupportedIntegrators
    THEN "ValueError"
    ELSE IF ComputeCurrentReferencesErr(scenario) # "none"
    THEN ComputeCurrentReferencesErr(scenario)
    ELSE IF ~({"id", "iq"} \subseteq Keys(x)) THEN "KeyError"
    ELSE "none"

HFail(h, e) == [heap |-> h.heap, next |-> h.next, err |-> e, x |-> 0, y |-> 0]

\* stage 4 of run_step: newton_raphson(x=dict(x), y0=dict(y), ...)
RunStepHSolve(h, x, y, params, inputs) ==
    Only({Only({NewtonRaphsonH(HeapOf(nr_y0), nr_x.ref, nr_y0.ref, params, inputs) :
                    nr_y0 \in {HCopy(HeapOf(nr_x), y)}}) :
            nr_x \in {HCopy(h, x)}})

\* the integrator's new mapping, then stage 7: dict(x_next), dict(y_next)
RunStepHLimits(h, x_next_value, y_next) ==
    Only({Only({Only({[heap |-> y_limited.heap, next |-> y_limited.next,
                       err |-> "none", x |-> x_limited.ref, y |-> y_limited.ref] :
                        y_limited \in {HCopy(HeapOf(x_limited), y_next)}}) :
                    x_limited \in {HCopy(HeapOf(x_next), x_next.ref)}}) :
            x_next \in {HNew(h, x_next_value)}})

\* stages 5-6 on state = dict(x) and the y object NR returned
RunStepHIntegrate(nr, x, params, dt, integrator_name, inputs) ==
    IF nr.err # "none" THEN HFail(nr, nr.err)
    ELSE Only({Only({IF integ.err # "none" THEN HFail(state, integ.err)
                     ELSE RunStepHLimits(HeapOf(state), integ.x, nr.y) :
                        integ \in {StepIntegrate(dt, state.heap[state.ref],
                                                 state.heap[nr.y], state.heap[params],
                                                 inputs, integrator_name)}}) :
                state \in {HCopy(HeapOf(nr), x)}})

\* run_step on the objects x, y, scenario, params
RunStepH(h, x, y, scenario, params, dt, integrator_name) ==
    IF RunStepEarlyErr(h.heap[x], h.heap[scenario], integrator_name) # "none"
    THEN HFail(h, RunStepEarlyErr(h.heap[x], h.heap[scenario], integrator_name))
    ELSE Only({Only({RunStepHIntegrate(nr, x, params, dt, integrator_name, inputs) :
                        nr \in {RunStepHSolve(h, x, y, params, inputs)}}) :
                inputs \in {StepInputs(h.heap[x], h.heap[scenario], h.heap[params])}})

\* the objects of the caller: x (x0), y (y0), params, scenario
CallerX == 1
CallerY == 2
CallerParams == 3
CallerScenario == 4
CallerObjects == {CallerX, CallerY, CallerParams, CallerScenario}

SeqRange(q) == {q[i] : i \in DOMAIN q}
\* the objects still referenced: those of the caller, the callee's x and y,
\* the history entries and the returned mappings
Live(run) ==
    CallerObjects \cup {run.x, run.y} \cup SeqRange(run.x_history)
        \cup SeqRange(run.y_history) \cup SeqRange(run.ret)
Collect(h, run) ==
    [heap |-> [r \in (DOMAIN h.heap) \cap Live(run) |-> h.heap[r]], next |-> h.next]

OwYs == {MkY(Zero, Zero, Zero), MkY(One, ThreeHalves, One)}
OwCalls ==
    {[fn |-> "newton_raphson", x |-> x, y |-> y, params |-> pa, scenario |-> sc,
      integrator_name |-> PyNone, dt |-> Half, t0 |-> Zero, t_end |-> One,
      dt_initial |-> Half, dt_min |-> Half, dt_max |-> Half, tol |-> One,
      max_steps |-> 1] :
        x \in {MkX(One, R(-1), R(2)), MkX(One, Zero, Zero)}, y \in OwYs,
        pa \in AdParams, sc \in AdScenarios}
    \cup
    {[fn |-> "run_step", x |-> x, y |-> y, params |-> pa, scenario |-> sc,
      integrator_name |-> name, dt |-> dt, t0 |-> Zero, t_end |-> One,
      dt_initial |-> Half, dt_min |-> Half, dt_max |-> Half, tol |-> One,
      max_steps |-> 1] :
        x \in AdX, y \in OwYs, pa \in AdParams,
        sc \in AdScenarios \cup {[control_mode |-> "PQ", v_pcc_d |-> One,
                                  v_pcc_q |-> Zero, P_ref |-> R(3), Q_ref |-> Zero]},
        name \in {PyNone, "euler", "rk2", "rk4", "rk3"}, dt \in {Half, One}}
    \cup
    {[fn |-> "run_simulation_adaptive", x |-> x, y |-> y, params |-> pa,
      scenario |-> sc, integrator_name |-> name, dt |-> Zero, t0 |-> Zero,
      t_end |-> t_end, dt_initial |-> dt0, dt_min |-> <<1, 4>>, dt_max |-> Half,
      tol |-> tol, max_steps |-> ms] :
        x \in AdX, y \in OwYs, pa \in AdParams, sc \in AdScenarios,
        name \in {PyNone, "rk2"}, t_end \in {Zero, One}, dt0 \in {<<1, 8>>, Half},
        tol \in {<<1, 64>>, R(64)}, ms \in {1, MaxSteps}}

NoOwRun ==
    [t |-> Zero, steps |-> 0, ts_dt |-> Zero, x |-> CallerX, y |-> CallerY,
     x_history |-> <<>>, y_history |-> <<>>, ret |-> <<>>, err |-> "none",
     target |-> 0, before |-> <<>>]

OwInit ==
    /\ owIn \in OwCalls
    /\ owPc = "start"
    /\ owHeap = [heap |-> (CallerX :> owIn.x) @@ (CallerY :> owIn.y)
                            @@ (CallerParams :> owIn.params)
                            @@ (CallerScenario :> owIn.scenario),
                 next |-> 5]
    /\ owRun = NoOwRun
    /\ OwRestIdle

\* the caller calls newton_raphson(x, y0, g_residual, dg_dy, params, inputs)
OwCallNR ==
    /\ owPc = "start"
    /\ owIn.fn = "newton_raphson"
    /\ \E nr \in {NewtonRaphsonH(owHeap, CallerX, CallerY, CallerParams, NrInputs)} :
        \E run \in {[owRun EXCEPT !.err = nr.err,
                        !.ret = IF nr.err = "none" THEN <<nr.y>> ELSE <<>>]} :
            /\ owRun' = run
            /\ owHeap' = Collect(nr, run)
            /\ owPc' = IF nr.err = "none" THEN "returned" ELSE "raised"
    /\ UNCHANGED <<owIn, owRest>>

\* the caller calls run_step(t, dt, x, y, scenario, params, integrator_name)
OwCallStep ==
    /\ owPc = "start"
    /\ owIn.fn = "run_step"
    /\ \E rs \in {RunStepH(owHeap, CallerX, CallerY, CallerScenario, CallerParams,
                           owIn.dt, owIn.integrator_name)} :
        \E run \in {[owRun EXCEPT !.err = rs.err,
                        !.ret = IF rs.err = "none" THEN <<rs.x, rs.y>> ELSE <<>>]} :
            /\ owRun' = run
            /\ owHeap' = Collect(rs, run)
            /\ owPc' = IF rs.err = "none" THEN "returned" ELSE "raised"
    /\ UNCHANGED <<owIn, owRest>>

\* run_simulation_adaptive up to the loop: the argument check, the
\* histories [dict(x0)], [dict(y0)] and the working x = dict(x0), y = dict(y0)
OwAdStart ==
    /\ owPc = "start"
    /\ owIn.fn = "run_simulation_adaptive"
    /\ IF RLe(owIn.t_end, owIn.t0)
       THEN /\ owPc' = "raised"
            /\ owRun' = [owRun EXCEPT !.err = "ValueError"]
            /\ owHeap' = owHeap
       ELSE \E xh \in {HCopy(owHeap, CallerX)} :
            \E yh \in {HCopy(HeapOf(xh), CallerY)} :
            \E x \in {HCopy(HeapOf(yh), CallerX)} :
            \E y \in {HCopy(HeapOf(x), CallerY)} :
            \E run \in {[owRun EXCEPT !.t = owIn.t0, !.ts_dt = owIn.dt_initial,
                            !.x = x.ref, !.y = y.ref,
                            !.x_history = <<xh.ref>>, !.y_history = <<yh.ref>>]} :
                /\ owPc' = "loop"
                /\ owRun' = run
                /\ owHeap' = Collect(y, run)
    /\ UNCHANGED <<owIn, owRest>>

OwInLoop == RLt(owRun.t, owIn.t_end) /\ owRun.steps < owIn.max_steps

\* one pass of the while-loop body on the heap: three run_step calls, the
\* error estimate, the stepper update and the acceptance decision
OwTrialFromError(in, run, dt, fine, error_estimate) ==
    IF TsUpdateErr(error_estimate, in.tol) # "none"
    THEN HFail(fine, TsUpdateErr(error_estimate, in.tol))
    ELSE Only({[heap |-> fine.heap, next |-> fine.next, err |-> "none",
                x |-> fine.x, y |-> fine.y, dt |-> dt, new_dt |-> new_dt,
                accept |-> Accept(error_estimate, in.tol, new_dt, in.dt_min)] :
                new_dt \in {TsUpdate(run.ts_dt, in.dt_min, in.dt_max,
                                     error_estimate, in.tol)}})

OwTrialFromFine(in, run, dt, coarse, fine) ==
    IF fine.err # "none" THEN HFail(fine, fine.err)
    ELSE Only({OwTrialFromError(in, run, dt, fine, error_estimate) :
                error_estimate \in {ErrorEstimate(fine.heap[run.x], fine.heap[coarse.x],
                                                  fine.heap[fine.x])}})

OwTrialFromHalf(in, run, dt, coarse, half) ==
    IF half.err # "none" THEN HFail(half, half.err)
    ELSE Only({OwTrialFromFine(in, run, dt, coarse, fine) :
                fine \in {RunStepH(HeapOf(half), half.x, half.y, CallerScenario,
                                   CallerParams, RMul(dt, Half), in.integrator_name)}})

OwTrialFromCoarse(in, run, dt, coarse) ==
    IF coarse.err # "none" THEN HFail(coarse, coarse.err)
    ELSE Only({OwTrialFromHalf(in, run, dt, coarse, half) :
                half \in {RunStepH(HeapOf(coarse), run.x, run.y, CallerScenario,
                                   CallerParams, RMul(dt, Half), in.integrator_name)}})

OwTrial(h, in, run) ==
    Only({Only({OwTrialFromCoarse(in, run, dt, coarse) :
                    coarse \in {RunStepH(h, run.x, run.y, CallerScenario, CallerParams,
                                         dt, in.integrator_name)}}) :
            dt \in {TrialDt(run.t, run.ts_dt, in.t_end)}})

\* if accept: x = x_fine, y = y_fine, and dict(x), dict(y) go to the histories
OwAccepted(tr) ==
    \E x_snap \in {HCopy(HeapOf(tr), tr.x)} :
    \E y_snap \in {HCopy(HeapOf(x_snap), tr.y)} :
    \E run \in {[owRun EXCEPT !.t = RAdd(owRun.t, tr.dt), !.steps = @ + 1,
                    !.ts_dt = tr.new_dt, !.x = tr.x, !.y = tr.y,
                    !.x_history = Append(@, x_snap.ref),
                    !.y_history = Append(@, y_snap.ref)]} :
        /\ owPc' = owPc
        /\ owRun' = run
        /\ owHeap' = Collect(y_snap, run)

OwAdTrial ==
    /\ owPc = "loop"
    /\ OwInLoop
    /\ \E tr \in {OwTrial(owHeap, owIn, owRun)} :
        IF tr.err # "none"
        THEN /\ owPc' = "raised"
             /\ owRun' = [owRun EXCEPT !.err = tr.err]
             /\ owHeap' = Collect(tr, owRun)
        ELSE IF tr.accept THEN OwAccepted(tr)
        ELSE /\ owPc' = owPc
             /\ owRun' = [owRun EXCEPT !.ts_dt = tr.new_dt]
             /\ owHeap' = Collect(tr, owRun)
    /\ UNCHANGED <<owIn, owRest>>

\* after the loop: RuntimeError when the step budget is used up, else the
\* histories are returned
OwAdEnd ==
    /\ owPc = "loop"
    /\ ~OwInLoop
    /\ IF owRun.steps >= owIn.max_steps
       THEN /\ owPc' = "raised"
            /\ owRun' = [owRun EXCEPT !.err = "RuntimeError"]
       ELSE /\ owPc' = "returned"
            /\ owRun' = [owRun EXCEPT !.ret = owRun.x_history \o owRun.y_history]
    /\ UNCHANGED <<owIn, owHeap, owRest>>

\* after the return the caller clears one of the mappings it holds: one it
\* passed or one it was returned
OwCallerWrites ==
    /\ owPc = "returned"
    /\ \E target \in CallerObjects \cup SeqRange(owRun.ret) :
        /\ owHeap' = [owHeap EXCEPT !.heap[target] = <<>>]
        /\ owRun' = [owRun EXCEPT !.target = target, !.before = owHeap.heap]
    /\ owPc' = "written"
    /\ UNCHANGED <<owIn, owRest>>

OwNext ==
    \/ OwCallNR
    \/ OwCallStep
    \/ OwAdStart
    \/ OwAdTrial
    \/ OwAdEnd
    \/ OwCallerWrites

SpecOwn == OwInit /\ [][OwNext]_vars

\* the mappings the caller holds after the return
OwHeld == CallerObjects \cup SeqRange(owRun.ret)

\* C16: while newton_raphson, run_step or run_simulation_adaptive runs, and
\* after it has returned or raised, the caller's x, y, params and scenario
\* objects hold what they held at the call; the returned mappings (x_next,
\* y_next, every history snapshot) are objects distinct from the caller's
\* and from each other, as are the x and y the adaptive loop works on; and
\* when the caller afterwards clears one mapping it holds, every other
\* mapping it holds keeps its entries.
C16_NoMutationNoAliasing ==
    owPc # "idle" =>
        /\ owPc # "written" =>
                /\ owHeap.heap[CallerX] = owIn.x
                /\ owHeap.heap[CallerY] = owIn.y
                /\ owHeap.heap[CallerParams] = owIn.params
                /\ owHeap.heap[CallerScenario] = owIn.scenario
        /\ owPc = "loop" => {owRun.x, owRun.y} \cap CallerObjects = {}
        /\ owPc \in {"returned", "written"} =>
                /\ SeqRange(owRun.ret) \cap CallerObjects = {}
                /\ Cardinality(SeqRange(owRun.ret)) = Len(owRun.ret)
                /\ Len(owRun.ret) > 0
        /\ owPc = "written" =>
                /\ owHeap.heap[owRun.target] = <<>>
                /\ \A r \in OwHeld \ {owRun.target} : owHeap.heap[r] = owRun.before[r]

\* an adaptive run of two accepted steps whose NR solves changed y, after
\* which the caller cleared a history snapshot
C16_Witness ==
    /\ owPc = "written"
    /\ owIn.fn = "run_simulation_adaptive"
    /\ Len(owRun.y_history) >= 3
    /\ owRun.target = owRun.y_history[2]
    /\ owRun.before[owRun.y_history[2]] # owIn.y
    /\ owRun.before[owRun.x_history[3]] # owIn.x
    /\ owHeap.heap[CallerY] = owIn.y
    /\ owIn.y # MkY(Zero, Zero, Zero)

(***************************************************************************)
(* The Euler schemes side by side: one integrator step on a generic        *)
(* derivative mapping, or one run_step call                                *)
(***************************************************************************)
EulerInit == IntInit \/ StepInit
\* the call that was made runs
EulerNext ==
    \/ (igOut # <<>> /\ IntStep)
    \/ (rsOut # <<>> /\ StepCall)
SpecEuler == EulerInit /\ [][EulerNext]_vars

IntDone == igOut # <<>> /\ igOut.err # "pending"
StepDone == rsOut # <<>> /\ rsOut.err # "pending"
EulerNames == {PyNone, "euler", "rk1"}
RunStepAs(name) ==
    RunStep(Zero, rsIn.dt, rsIn.x, rsIn.y, rsIn.scenario, rsIn.params, name)

\* C17: when the derivative mapping has every key of the state,
\* step_forward(x, f(x), dt) and RK1Integrator.step(f, x, dt) return the
\* same state, which is what the schemes None, "euler" and "rk1" return;
\* and the run_step call with the arguments of a default-integrator call
\* but integrator_name "euler" or "rk1" has the same outcome (x_next and
\* y_next, or the same exception).
C17_EulerEqualsRK1 ==
    /\ (IntDone /\ Keys(igIn.state) \subseteq Keys(igIn.table)) =>
            /\ StepForward(igIn.state, Rhs("table", igIn.state, igIn), igIn.dt)
                    = RK1Step("table", igIn.state, igIn.dt, igIn)
            /\ igIn.scheme \in EulerNames =>
                    /\ igOut.err = "none"
                    /\ igOut = RK1Step("table", igIn.state, igIn.dt, igIn)
                    /\ igOut = StepForward(igIn.state, igIn.table, igIn.dt)
    /\ (StepDone /\ rsIn.integrator_name = PyNone) =>
            \A name \in {"euler", "rk1"} :
                \E other \in {RunStepAs(name)} :
                    /\ other.err = rsOut.err
                    /\ rsOut.err = "none" => (other.x = rsOut.x /\ other.y = rsOut.y)

\* a default-integrator run_step call that moved every state, with a step
\* size other than 1, where the midpoint scheme gives another state
C17_Witness ==
    /\ StepDone
    /\ rsOut.err = "none"
    /\ rsIn.integrator_name = PyNone
    /\ rsIn.dt = Half
    /\ \A i \in DOMAIN rsIn.x : rsOut.x[i] # rsIn.x[i]
    /\ RunStepAs("rk1").x = rsOut.x
    /\ RunStepAs("rk2").x # rsOut.x

(***************************************************************************)
(* The time axis of a fixed-step run in IEEE 754 binary64 (Python float):  *)
(* `t += dt` and `t_end / dt` round to nearest, ties to even.              *)
(***************************************************************************)
\* natural numbers of any size: bits, least significant first, the last 1.
\* Loops over the bits are split in halves, which keeps the evaluation
\* shallow.
BTrim(a) ==
    Only({SubSeq(v, 1, IF \E i \in DOMAIN v : v[i] = 1
                       THEN CHOOSE i \in DOMAIN v : v[i] = 1 /\ \A k \in (i + 1)..Len(v) : v[k] = 0
                       ELSE 0) : v \in {a}})
Bit(a, i) == IF i >= 1 /\ i <= Len(a) THEN a[i] ELSE 0
Shl(a, k) == IF a = <<>> \/ k <= 0 THEN a ELSE [i \in 1..k |-> 0] \o a
Shr(a, k) == IF k <= 0 THEN a ELSE SubSeq(a, k + 1, Len(a))

\* for 0 <= n < 2^31
FromInt(n) == BTrim([i \in 1..31 |-> (n \div (2 ^ (i - 1))) % 2])
RECURSIVE ToInt(_)
ToInt(a) ==
    IF a = <<>> THEN 0
    ELSE IF Len(a) = 1 THEN a[1]
    ELSE ToInt(SubSeq(a, 1, Len(a) \div 2))
         + (2 ^ (Len(a) \div 2)) * ToInt(SubSeq(a, Len(a) \div 2 + 1, Len(a)))

\* bits lo..hi of a + b
RECURSIVE BAddRange(_, _, _, _, _)
BAddRange(a, b, lo, hi, st) ==
    IF lo = hi
    THEN Only({[carry |-> sum \div 2, acc |-> Append(st.acc, sum % 2)] :
                sum \in {Bit(a, lo) + Bit(b, lo) + st.carry}})
    ELSE Only({BAddRange(a, b, (lo + hi) \div 2 + 1, hi, half) :
                half \in {BAddRange(a, b, lo, (lo + hi) \div 2, st)}})
BAdd(a, b) ==
    Only({IF u = <<>> THEN v
          ELSE IF v = <<>> THEN u
          ELSE Only({IF r.carry = 1 THEN Append(r.acc, 1) ELSE r.acc :
                        r \in {BAddRange(u, v, 1, IF Len(u) > Len(v) THEN Len(u) ELSE Len(v),
                                         [carry |-> 0, acc |-> <<>>])}}) :
            u \in {a}, v \in {b}})

\* bits lo..hi of a - b
RECURSIVE BSubRange(_, _, _, _, _)
BSubRange(a, b, lo, hi, st) ==
    IF lo = hi
    THEN Only({[borrow |-> IF diff < 0 THEN 1 ELSE 0, acc |-> Append(st.acc, diff % 2)] :
                diff \in {Bit(a, lo) - Bit(b, lo) - st.borrow}})
    ELSE Only({BSubRange(a, b, (lo + hi) \div 2 + 1, hi, half) :
                half \in {BSubRange(a, b, lo, (lo + hi) \div 2, st)}})
\* a - b for a >= b
BSub(a, b) ==
    Only({IF u = <<>> THEN u
          ELSE BTrim(BSubRange(u, v, 1, Len(u), [borrow |-> 0, acc |-> <<>>]).acc) :
            u \in {a}, v \in {b}})

BLt(a, b) ==
    \E u \in {a}, v \in {b} :
        IF Len(u) # Len(v) THEN Len(u) < Len(v)
        ELSE \E i \in DOMAIN u : u[i] < v[i] /\ \A k \in (i + 1)..Len(u) : u[k] = v[k]

\* the sum of b * 2^(i-1) over the bits i in lo..hi of a that are 1
RECURSIVE BMulRange(_, _, _, _)
BMulRange(a, b, lo, hi) ==
    IF lo = hi THEN (IF a[lo] = 1 THEN Shl(b, lo - 1) ELSE <<>>)
    ELSE Only({BAdd(low, high) :
                low \in {BMulRange(a, b, lo, (lo + hi) \div 2)},
                high \in {BMulRange(a, b, (lo + hi) \div 2 + 1, hi)}})
BMul(a, b) ==
    Only({IF u = <<>> \/ v = <<>> THEN <<>> ELSE BMulRange(u, v, 1, Len(u)) :
            u \in {a}, v \in {b}})

\* floor(sqrt(n)), two bits of n at a time from the top: pairs hi down to lo
RECURSIVE BSqrtRange(_, _, _, _)
BSqrtRange(n, hi, lo, st) ==
    IF hi = lo
    THEN Only({IF BLt(rem, trial) THEN [rem |-> rem, root |-> Shl(st.root, 1)]
               ELSE [rem |-> BSub(rem, trial),
                     root |-> IF st.root = <<>> THEN <<1>> ELSE <<1>> \o st.root] :
                rem \in {BTrim(<<Bit(n, 2 * hi - 1), Bit(n, 2 * hi)>> \o st.rem)},
                trial \in {BTrim(<<1, 0>> \o st.root)}})
    ELSE Only({BSqrtRange(n, (hi + lo) \div 2, lo, half) :
                half \in {BSqrtRange(n, hi, (hi + lo) \div 2 + 1, st)}})
\* floor(sqrt(n)) and whether a remainder is left, for n > 0
BSqrt(n) ==
    Only({[q |-> r.root, inexact |-> r.rem # <<>>] :
            r \in {BSqrtRange(n, (Len(n) + 1) \div 2, 1, [rem |-> <<>>, root |-> <<>>])}})

\* long division of a by b over the bits hi down to lo of a
RECURSIVE BDivRange(_, _, _, _, _)
BDivRange(a, b, hi, lo, st) ==
    IF hi = lo
    THEN Only({IF BLt(r, b) THEN [rem |-> r, quo |-> <<0>> \o st.quo]
               ELSE [rem |-> BSub(r, b), quo |-> <<1>> \o st.quo] :
                r \in {BTrim(<<a[hi]>> \o st.rem)}})
    ELSE Only({BDivRange(a, b, (hi + lo) \div 2, lo, half) :
                half \in {BDivRange(a, b, hi, (hi + lo) \div 2 + 1, st)}})
\* floor(a / b) and whether a remainder is left, for a, b > 0
BDiv(a, b) ==
    Only({[q |-> BTrim(r.quo), inexact |-> r.rem # <<>>] :
            r \in {BDivRange(a, b, Len(a), 1, [rem |-> <<>>, quo |-> <<>>])}})

\* a float is [neg, m, e] of value (+/-) m * 2^e with m of exactly Mantissa
\* bits, or m = <<>> for 0.0; the values of a run are far from the
\* subnormal range and from overflow
Mantissa == 53
F64Zero == [neg |-> FALSE, m |-> <<>>, e |-> 0]

\* n rounded to its Mantissa leading bits, ties to even: [m, shift] with
\* n ~ m * 2^shift
RoundedUp(n, k) ==
    Only({n[k] = 1 /\ (kept[1] = 1 \/ \E j \in 1..(k - 1) : n[j] = 1) :
            kept \in {Shr(n, k)}})
RoundBits(n, k) ==
    Only({IF Len(r) > Mantissa THEN [m |-> Shr(r, 1), shift |-> k + 1]
          ELSE [m |-> r, shift |-> k] :
            r \in {IF RoundedUp(n, k) THEN BAdd(Shr(n, k), <<1>>) ELSE Shr(n, k)}})

\* the float nearest to n * 2^e for a natural number n
F64Round(n, e) ==
    Only({IF v = <<>> THEN F64Zero
          ELSE IF Len(v) <= Mantissa
          THEN [neg |-> FALSE, m |-> Shl(v, Mantissa - Len(v)),
                e |-> e - (Mantissa - Len(v))]
          ELSE Only({[neg |-> FALSE, m |-> r.m, e |-> e + r.shift] :
                        r \in {RoundBits(v, Len(v) - Mantissa)}}) :
            v \in {n}})

\* a + b for a, b >= 0 (the time of a run and its step)
F64Add(a, b) ==
    Only({IF u.m = <<>> THEN v
          ELSE IF v.m = <<>> THEN u
          ELSE Only({F64Round(BAdd(Shl(u.m, u.e - low), Shl(v.m, v.e - low)), low) :
                        low \in {IF u.e < v.e THEN u.e ELSE v.e}}) :
            u \in {a}, v \in {b}})

\* a / b for a >= 0 and b > 0: Mantissa + 3 or + 4 quotient bits and a
\* sticky bit decide the rounding
F64Div(a, b) ==
    Only({IF u.m = <<>> THEN F64Zero
          ELSE Only({F64Round(<<IF d.inexact THEN 1 ELSE 0>> \o d.q,
                              u.e - v.e - (Mantissa + 3) - 1) :
                        d \in {BDiv(Shl(u.m, Mantissa + 3), v.m)}}) :
            u \in {a}, v \in {b}})

\* a * b
F64Mul(a, b) ==
    Only({IF u.m = <<>> \/ v.m = <<>> THEN [F64Zero EXCEPT !.neg = u.neg # v.neg]
          ELSE [F64Round(BMul(u.m, v.m), u.e + v.e) EXCEPT !.neg = u.neg # v.neg] :
            u \in {a}, v \in {b}})

\* math.sqrt(a) for a > 0: the radicand is scaled by an even power of two
\* to 2 * Mantissa + 4 bits or more
F64Sqrt(a) ==
    Only({Only({F64Round(<<IF r.inexact THEN 1 ELSE 0>> \o r.q, (u.e - k) \div 2 - 1) :
                    r \in {BSqrt(Shl(u.m, k))}}) :
            u \in {a}, k \in {Mantissa + 4 + ((a.e + Mantissa) % 2)}})

\* k * a for a natural number k and a >= 0
F64Times(k, a) ==
    Only({IF u.m = <<>> \/ k = 0 THEN F64Zero
          ELSE F64Round(BMul(FromInt(k), u.m), u.e) : u \in {a}})

\* a <= b for a, b >= 0
F64Le(a, b) ==
    \E u \in {a}, v \in {b} :
        IF u.m = <<>> THEN TRUE
        ELSE IF v.m = <<>> THEN FALSE
        ELSE IF u.e # v.e THEN u.e < v.e
        ELSE ~BLt(v.m, u.m)

\* a truncation that rounds every fraction up
F64Int_Up(a) ==
    Only({IF u.m = <<>> THEN 0
          ELSE IF u.e >= 0 THEN ToInt(Shl(u.m, u.e))
          ELSE ToInt(Shr(u.m, -u.e))
               + (IF \E j \in 1..(-u.e) : Bit(u.m, j) = 1 THEN 1 ELSE 0) : u \in {a}})

\* int(a) for a >= 0
F64Int(a) ==
    Only({IF u.m = <<>> THEN 0
          ELSE IF u.e >= 0 THEN ToInt(Shl(u.m, u.e))
          ELSE ToInt(Shr(u.m, -u.e)) : u \in {a}})

F64Negative(a) == a.neg /\ a.m # <<>>
F64IsZero(a) == a.m = <<>>

\* the float a decimal literal n/d denotes: the nearest one
F64Of(q) ==
    Only({[f EXCEPT !.neg = q[1] < 0] :
            f \in {F64Div(F64Round(FromInt(IAbs(q[1])), 0), F64Round(FromInt(q[2]), 0))}})

(***************************************************************************)
(* Fixed-step run (api/simulation.py, run_simulation)                      *)
(***************************************************************************)
Without(rec, key) == [k \in (DOMAIN rec) \ {key} |-> rec[k]]

FxGoodParams ==
    {[L |-> One, R |-> One, Cdc |-> One, omega |-> Zero, V_max |-> R(5),
      Kp_id |-> Zero, Kp_iq |-> Zero]}
FxParamsConfigs ==
    FxGoodParams \cup {Without(p, key) : p \in FxGoodParams, key \in {"L", "V_max", "Kp_iq"}}

FxInitialConditions ==
    {[id |-> Zero, iq |-> Zero, Vdc |-> One],
     [x0 |-> [id |-> One, Vdc |-> One]],
     [id |-> One, iq |-> R(-1), Vdc |-> R(2), Idc |-> One],
     [x0 |-> [Vdc |-> R(2)], y0 |-> [P_ac |-> ThreeHalves], id |-> One, Vdc |-> Zero]}
FxBareScenarios ==
    {[control_mode |-> "VdcQ", v_pcc_d |-> Zero, v_pcc_q |-> Zero,
      id_ref |-> Zero, iq_ref |-> Zero],
     [control_mode |-> "PQ", v_pcc_d |-> One, v_pcc_q |-> Zero,
      P_ref |-> Zero, Q_ref |-> Zero],
     [control_mode |-> "Droop", v_pcc_d |-> One, v_pcc_q |-> Zero,
      P_ref |-> Zero, Q_ref |-> Zero]}
FxGoodScenarios ==
    FxBareScenarios
    \cup {("initial_conditions" :> ic) @@ sc : sc \in FxBareScenarios,
                                               ic \in FxInitialConditions}
FxScenarioConfigs ==
    FxGoodScenarios
    \cup {Without(sc, key) : sc \in FxGoodScenarios,
                             key \in {"control_mode", "v_pcc_q", "id_ref", "Q_ref"}}

NoFxRun ==
    [t |-> F64Zero, x |-> <<>>, y |-> <<>>, params |-> <<>>, scenario |-> <<>>,
     n_steps |-> 0, done |-> 0, calls |-> 0, time |-> <<>>,
     x_hist |-> [id |-> <<>>, iq |-> <<>>, Vdc |-> <<>>],
     y_hist |-> [Idc |-> <<>>, P_ac |-> <<>>, Q_ac |-> <<>>]]

\* t_end and dt are Python floats; the state arithmetic of run_step is exact
\* on the decimal the caller wrote (dt_exact)
FxTimesOf(pairs) ==
    {[t_end |-> F64Of(pair[1]), dt |-> F64Of(pair[2]), dt_exact |-> pair[2]] :
        pair \in pairs}
FxTimes ==
    FxTimesOf({R(-1), Zero, One, ThreeHalves, R(2)} \X {R(-1), Zero, Half, <<3, 4>>, One})
\* longer runs, whose steps are not dyadic; they start at rest, where the
\* exact state arithmetic stays small
FxLongTimes ==
    FxTimesOf({<<<<3, 10>>, <<1, 10>>>>, <<<<7, 10>>, <<1, 10>>>>, <<<<28, 5>>, <<7, 10>>>>})
FxAtRest ==
    {("initial_conditions" :> [id |-> Zero, iq |-> Zero, Vdc |-> One]) @@ sc :
        sc \in {c \in FxBareScenarios : c.control_mode = "VdcQ"}}
FxArgs ==
    (FxParamsConfigs \X FxScenarioConfigs \X FxTimes)
    \cup (FxGoodParams \X FxAtRest \X FxLongTimes)

FxInit ==
    /\ \E args \in FxArgs :
            fxIn = [params_config |-> args[1], scenario_config |-> args[2],
                    t_end |-> args[3].t_end, dt |-> args[3].dt,
                    dt_exact |-> args[3].dt_exact]
    /\ fxPc = "start"
    /\ fxRun = NoFxRun
    /\ fxOut = "none"
    /\ FxRestIdle

\* the loaders alone: a run that accepts any dt and t_end
FxStartErr_NoArgumentChecks ==
    IF LoadParametersErr(fxIn.params_config) # "none"
    THEN LoadParametersErr(fxIn.params_config)
    ELSE LoadScenarioErr(fxIn.scenario_config)

\* the checks and loaders of lines 88-99, in the order of the code
FxStartErr ==
    IF F64Negative(fxIn.dt) \/ F64IsZero(fxIn.dt) THEN "ValueError"
    ELSE IF F64Negative(fxIn.t_end) THEN "ValueError"
    ELSE IF LoadParametersErr(fxIn.params_config) # "none"
    THEN LoadParametersErr(fxIn.params_config)
    ELSE LoadScenarioErr(fxIn.scenario_config)

\* times.append(t) and the six series' appends
FxRecord(run, t, x, y) ==
    [run EXCEPT !.t = t, !.x = x, !.y = y,
        !.time = Append(@, t),
        !.x_hist = [id |-> Append(@.id, Get(x, "id")), iq |-> Append(@.iq, Get(x, "iq")),
                    Vdc |-> Append(@.Vdc, Get(x, "Vdc"))],
        !.y_hist = [Idc |-> Append(@.Idc, Get(y, "Idc")),
                    P_ac |-> Append(@.P_ac, Get(y, "P_ac")),
                    Q_ac |-> Append(@.Q_ac, Get(y, "Q_ac"))]]

\* lines 88-144: argument checks, loaders, initial snapshot, the early
\* return for t_end == 0 and n_steps = int(t_end / dt)
FxStart ==
    /\ fxPc = "start"
    /\ IF FxStartErr # "none"
       THEN /\ fxPc' = "raised"
            /\ fxOut' = FxStartErr
            /\ fxRun' = fxRun
       ELSE \E ic \in {LoadInitialConditions(
                        IF "initial_conditions" \in DOMAIN fxIn.scenario_config
                        THEN fxIn.scenario_config.initial_conditions ELSE NoKw)} :
            \E run \in {FxRecord([fxRun EXCEPT !.params = fxIn.params_config,
                                               !.scenario = fxIn.scenario_config],
                                 F64Zero, ic.x0, ic.y0)} :
                /\ fxOut' = fxOut
                /\ IF F64IsZero(fxIn.t_end)
                   THEN fxPc' = "returned" /\ fxRun' = run
                   ELSE /\ fxPc' = "loop"
                        /\ fxRun' = [run EXCEPT !.n_steps = F64Int(F64Div(fxIn.t_end, fxIn.dt))]
    /\ UNCHANGED <<fxIn, fxRest>>

\* one pass of `for _ in range(n_steps)`: run_step with the default
\* integrator, t += dt, and the appends
FxStep ==
    /\ fxPc = "loop"
    /\ fxRun.done < fxRun.n_steps
    /\ \E rs \in {RunStep(fxRun.t, fxIn.dt_exact, fxRun.x, fxRun.y, fxRun.scenario,
                          fxRun.params, PyNone)} :
        IF rs.err # "none"
        THEN /\ fxPc' = "raised"
             /\ fxOut' = rs.err
             /\ fxRun' = [fxRun EXCEPT !.calls = @ + 1]
        ELSE /\ fxPc' = fxPc
             /\ fxOut' = fxOut
             /\ fxRun' = FxRecord([fxRun EXCEPT !.calls = @ + 1, !.done = @ + 1],
                                  F64Add(fxRun.t, fxIn.dt), rs.x, rs.y)
    /\ UNCHANGED <<fxIn, fxRest>>

\* lines 168-172: the loop is over
FxReturn ==
    /\ fxPc = "loop"
    /\ fxRun.done >= fxRun.n_steps
    /\ fxPc' = "returned"
    /\ UNCHANGED <<fxIn, fxRun, fxOut, fxRest>>

FxNext ==
    \/ FxStart
    \/ FxStep
    \/ FxReturn

SpecFixed == FxInit /\ [][FxNext]_vars

FxReturned == fxPc = "returned"
FxSeries ==
    {fxRun.x_hist.id, fxRun.x_hist.iq, fxRun.x_hist.Vdc,
     fxRun.y_hist.Idc, fxRun.y_hist.P_ac, fxRun.y_hist.Q_ac}
F64OfInt(n) == F64Round(FromInt(n), 0)
\* n = floor(q) for a float q >= 0
IsFloorOf(n, q) == F64Le(F64OfInt(n), q) /\ ~F64Le(F64OfInt(n + 1), q)

\* what every returned run has, whatever the rounding: n_steps =
\* floor(t_end / dt) calls of run_step, n_steps + 1 time points from 0.0,
\* six series of that length, and the initial snapshot alone for t_end = 0
FxShape ==
    /\ F64IsZero(fxIn.t_end) => fxRun.calls = 0
    /\ ~F64IsZero(fxIn.t_end) => IsFloorOf(fxRun.calls, F64Div(fxIn.t_end, fxIn.dt))
    /\ Len(fxRun.time) = fxRun.calls + 1
    /\ fxRun.time[1] = F64Zero
    /\ \A series \in FxSeries : Len(series) = Len(fxRun.time)

FxBadTimes == fxIn.dt.neg \/ fxIn.dt.m = <<>> \/ (fxIn.t_end.neg /\ fxIn.t_end.m # <<>>)
FxMissingParam == \E key \in RequiredParams : key \notin DOMAIN fxIn.params_config
FxMissingScenarioKey ==
    \/ \E key \in {"control_mode", "v_pcc_d", "v_pcc_q"} : key \notin DOMAIN fxIn.scenario_config
    \/ /\ "control_mode" \in DOMAIN fxIn.scenario_config
       /\ \/ /\ fxIn.scenario_config.control_mode = "PQ"
             /\ \E key \in {"P_ref", "Q_ref"} : key \notin DOMAIN fxIn.scenario_config
          \/ /\ fxIn.scenario_config.control_mode = "VdcQ"
             /\ \E key \in {"id_ref", "iq_ref"} : key \notin DOMAIN fxIn.scenario_config
FxStarted == fxPc \in {"loop", "returned", "raised"}

\* C20: run_simulation with dt <= 0, with t_end < 0, or with a required
\* parameter or scenario key missing raises a configuration error
\* (ValueError), and it does so before any run_step call and before any
\* point of the trajectory is stored.
C20_ConfigErrorsBeforeAnyStep ==
    (FxStarted /\ (FxBadTimes \/ FxMissingParam \/ FxMissingScenarioKey)) =>
        /\ fxPc = "raised"
        /\ fxOut = "ValueError"
        /\ fxRun.calls = 0
        /\ fxRun.time = <<>>
        /\ \A series \in FxSeries : series = <<>>

\* each of the four causes alone has raised: a bad dt, a bad t_end, a
\* missing parameter, a missing scenario key
C20_WitnessCause(times, param, key) ==
    /\ fxPc = "raised" /\ fxOut = "ValueError" /\ fxRun.calls = 0
    /\ FxBadTimes = times /\ FxMissingParam = param /\ FxMissingScenarioKey = key
C20_Witness == C20_WitnessCause(FALSE, FALSE, TRUE)
C20_WitnessTimes == C20_WitnessCause(TRUE, FALSE, FALSE)
C20_WitnessParam == C20_WitnessCause(FALSE, TRUE, FALSE)

(***************************************************************************)
(* run_step calls, adaptive runs and fixed-step runs together              *)
(***************************************************************************)
KeysInit == StepInit \/ AdInit \/ FxInit
KeysNext ==
    \/ (rsOut # <<>> /\ StepCall)
    \/ AdStartRaise
    \/ AdStart
    \/ AdTrial
    \/ AdRaiseBudget
    \/ AdReturn
    \/ FxStart
    \/ FxStep
    \/ FxReturn
SpecKeys == KeysInit /\ [][KeysNext]_vars

\* a dict with exactly the given keys
HasExactly(d, keys) == Keys(d) = keys /\ Len(d) = Cardinality(keys)
IsX(d) == HasExactly(d, {"id", "iq", "Vdc"})
IsY(d) == HasExactly(d, {"Idc", "P_ac", "Q_ac"})

StepKeysKept ==
    (StepDone /\ rsOut.err = "none" /\ IsX(rsIn.x) /\ IsY(rsIn.y)) =>
        IsX(rsOut.x) /\ IsY(rsOut.y)
AdKeysKept ==
    (adIn # <<>> /\ adRun # <<>> /\ adRun.times # <<>> /\ IsX(adIn.x0) /\ IsY(adIn.y0)) =>
        /\ IsX(adRun.x) /\ IsY(adRun.y)
        /\ \A i \in DOMAIN adRun.x_history : IsX(adRun.x_history[i])
        /\ \A i \in DOMAIN adRun.y_history : IsY(adRun.y_history[i])
FxKeysKept ==
    (fxRun # <<>> /\ fxRun.time # <<>>) =>
        /\ IsX(fxRun.x) /\ IsY(fxRun.y)
        /\ DOMAIN fxRun.x_hist = {"id", "iq", "Vdc"}
        /\ DOMAIN fxRun.y_hist = {"Idc", "P_ac", "Q_ac"}

\* C18: from an x with exactly the keys {id, iq, Vdc} and a y with exactly
\* the keys {Idc, P_ac, Q_ac}, every x and y that run_step returns, with
\* any integrator, and every x and y a fixed-step or an adaptive run holds
\* or stores in its histories, has exactly those keys.
C18_KeySetsPreserved == StepKeysKept /\ AdKeysKept /\ FxKeysKept

\* a run_step call with rk4 has returned a new x and a new y; an adaptive
\* run and a fixed-step run of several steps have returned moved states
C18_Witness ==
    /\ StepDone /\ rsOut.err = "none" /\ rsIn.integrator_name = "rk4"
    /\ IsX(rsIn.x) /\ IsY(rsIn.y)
    /\ rsOut.x # rsIn.x /\ rsOut.y # rsIn.y
C18_WitnessAdaptive ==
    /\ adPc = "returned" /\ Len(adRun.x_history) >= 3
    /\ adRun.x_history[3] # adRun.x_history[1]
C18_WitnessFixed ==
    /\ fxPc = "returned" /\ fxRun.calls >= 2 /\ fxRun.x # LoadInitialConditions(
            fxIn.scenario_config.initial_conditions).x0

(***************************************************************************)
(* An AdaptiveTimestepper and a caller that updates it (timestepper.py)    *)
(***************************************************************************)
TsDts == {R(-1), Zero, <<1, 8>>, Half, One, R(3)}
TsLimits ==
    {lim \in [dt_min : {R(-1), Zero, <<1, 4>>, Half}, dt_max : {Half, One, R(2)}] :
        RLe(lim.dt_min, lim.dt_max)}
TsTols == {<<1, 4>>, One}
TsErrors == {Zero, <<1, 64>>, <<1, 4>>, One, R(4), R(64)}

\* an error far below tol (the factor is growth_factor_max) and one far
\* above it (the factor is shrink_factor_min)
FarBelow(error_estimate, tol) == RLe(RMul(R(8), error_estimate), tol)
FarAbove(error_estimate, tol) == RLe(RMul(R(4), tol), error_estimate)

NoUpdate == [called |-> FALSE, before |-> Zero, returned |-> Zero]

\* AdaptiveTimestepper(dt, dt_min, dt_max): nothing is clamped or checked
TsInit ==
    /\ \E dt \in TsDts, lim \in TsLimits :
            tsObj = [dt |-> dt, dt_min |-> lim.dt_min, dt_max |-> lim.dt_max]
    /\ tsPc = "mixed"
    /\ tsLast = NoUpdate
    /\ TsRestIdle

\* ts.update(error_estimate, tol) with tol > 0 and error_estimate >= 0
TsCall ==
    /\ tsPc \in {"mixed", "low", "high"}
    /\ \E error_estimate \in TsErrors, tol \in TsTols :
        /\ TsUpdateErr(error_estimate, tol) = "none"
        /\ tsPc = "low" => FarBelow(error_estimate, tol)
        /\ tsPc = "high" => FarAbove(error_estimate, tol)
        /\ \E new_dt \in {TsUpdate(tsObj.dt, tsObj.dt_min, tsObj.dt_max, error_estimate, tol)} :
            /\ tsObj' = [tsObj EXCEPT !.dt = new_dt]
            /\ tsLast' = [called |-> TRUE, before |-> tsObj.dt, returned |-> new_dt]
    /\ UNCHANGED <<tsPc, tsRest>>

\* from now on the caller reports only errors far below tol, or only
\* errors far above it
TsSettle ==
    /\ tsPc = "mixed"
    /\ tsPc' \in {"low", "high"}
    /\ UNCHANGED <<tsObj, tsLast, tsRest>>

TsNext ==
    \/ TsCall
    \/ TsSettle

SpecTs == TsInit /\ [][TsNext]_vars

\* the caller goes on calling update
FairSpecTs == SpecTs /\ WF_vars(TsCall)

\* the largest grid point that is at most q, for q >= 0
GridFloor(q) == Norm((q[1] * DtGrid) \div q[2], DtGrid)

\* after an update the stored dt is the returned one and lies within the limits
TsWithinLimits ==
    tsLast.called =>
        /\ tsLast.returned = tsObj.dt
        /\ RLe(tsObj.dt_min, tsObj.dt) /\ RLe(tsObj.dt, tsObj.dt_max)

\* dt * factor lies between dt * shrink_factor_min and dt * growth_factor_max
\* (as rounded); a result outside can only be a limit the clamp has put in
TsFactorLow ==
    IF tsLast.before[1] >= 0 THEN GridFloor(RMul(tsLast.before, ShrinkFactorMin))
    ELSE RMul(tsLast.before, GrowthFactorMax)
TsFactorHigh ==
    IF tsLast.before[1] >= 0 THEN RMul(tsLast.before, GrowthFactorMax)
    ELSE RNeg(GridFloor(RMul(RAbs(tsLast.before), ShrinkFactorMin)))
TsFactorWithinLimits ==
    tsLast.called =>
        /\ RLt(tsLast.returned, TsFactorLow) => tsLast.returned = tsObj.dt_max
        /\ RLt(TsFactorHigh, tsLast.returned) => tsLast.returned = tsObj.dt_min

TsAtMax == tsObj.dt = tsObj.dt_max
TsAtMin == tsObj.dt = tsObj.dt_min
TsPositiveMin == RLt(Zero, tsObj.dt_min)

ApplyVoltageSaturationF64_NoSqrt(v_conv_d_ref, v_conv_q_ref, v_max) ==
    Only({IF F64Le(v_sq, F64Mul(v_max, v_max)) \/ F64IsZero(v_sq)
          THEN <<v_conv_d_ref, v_conv_q_ref>>
          ELSE Only({<<F64Mul(v_conv_d_ref, scale), F64Mul(v_conv_q_ref, scale)>> :
                        scale \in {[F64Div(v_max, v_sq) EXCEPT !.neg = v_max.neg]}}) :
            v_sq \in {F64Add(F64Mul(v_conv_d_ref, v_conv_d_ref),
                             F64Mul(v_conv_q_ref, v_conv_q_ref))}})

\* apply_voltage_saturation(v_conv_d_ref, v_conv_q_ref, v_max) in binary64
ApplyVoltageSaturationF64(v_conv_d_ref, v_conv_q_ref, v_max) ==
    Only({IF F64Le(v_sq, F64Mul(v_max, v_max)) \/ F64IsZero(v_sq)
          THEN <<v_conv_d_ref, v_conv_q_ref>>
          ELSE Only({<<F64Mul(v_conv_d_ref, scale), F64Mul(v_conv_q_ref, scale)>> :
                        scale \in {[F64Div(v_max, F64Sqrt(v_sq)) EXCEPT !.neg = v_max.neg]}}) :
            v_sq \in {F64Add(F64Mul(v_conv_d_ref, v_conv_d_ref),
                             F64Mul(v_conv_q_ref, v_conv_q_ref))}})

SatRefs == {F64Of(R(v)) : v \in {0, 1, 2, 3, 4, 10, -1, -2}}
SatLimits == {F64Of(R(v)) : v \in {0, 1, 2, 5}}

SatInit ==
    /\ satIn \in [v_conv_d_ref : SatRefs, v_conv_q_ref : SatRefs, v_max : SatLimits]
    /\ satOut = <<>>
    /\ SatRestIdle

\* v = apply_voltage_saturation(v_conv_d_ref, v_conv_q_ref, v_max)
SatCall ==
    /\ satIn # <<>>
    /\ Len(satOut) = 0
    /\ satOut' = <<ApplyVoltageSaturationF64(satIn.v_conv_d_ref, satIn.v_conv_q_ref,
                                             satIn.v_max)>>
    /\ UNCHANGED <<satIn, satRest>>

\* apply_voltage_saturation(v[0], v[1], v_max)
SatAgain ==
    /\ satIn # <<>>
    /\ Len(satOut) = 1
    /\ satOut' = Append(satOut, ApplyVoltageSaturationF64(satOut[1][1], satOut[1][2],
                                                          satIn.v_max))
    /\ UNCHANGED <<satIn, satRest>>

SatNext ==
    \/ SatCall
    \/ SatAgain

SpecSat == SatInit /\ [][SatNext]_vars

\* a = b as floats (0.0 = -0.0)
F64Eq(a, b) == (a.m = <<>> /\ b.m = <<>>) \/ a = b
\* |a - b| <= n units in the last place of b, for a and b of one sign
F64Near(a, b, n) ==
    \/ F64Eq(a, b)
    \/ /\ a.m # <<>> /\ b.m # <<>> /\ a.neg = b.neg
       /\ \E low \in {IF a.e < b.e THEN a.e ELSE b.e} :
          \E u \in {Shl(a.m, a.e - low)}, v \in {Shl(b.m, b.e - low)} :
            ~BLt(Shl(FromInt(n), b.e - low), IF BLt(u, v) THEN BSub(v, u) ELSE BSub(u, v))

SatSq(v) == F64Add(F64Mul(v[1], v[1]), F64Mul(v[2], v[2]))
SatArgs == <<satIn.v_conv_d_ref, satIn.v_conv_q_ref>>
SatLimitSq == F64Mul(satIn.v_max, satIn.v_max)
SatWithin == F64Le(SatSq(SatArgs), SatLimitSq)
SatScale == F64Div(satIn.v_max, F64Sqrt(SatSq(SatArgs)))
SatScaled == <<F64Mul(SatArgs[1], SatScale), F64Mul(SatArgs[2], SatScale)>>
SatTwice == Len(satOut) = 2 /\ ~satIn.v_max.neg

MaxCases == 3

\* def run_simulation(params_config, scenario_config, t_end, dt)
RunSimulationSignature == {"params_config", "scenario_config", "t_end", "dt"}

\* the keywords of the call in _run_single_case, in the order written
SingleCaseKeywords ==
    <<"params_config", "scenario_config", "t_end", "dt", "integrator", "adaptive">>

\* Python binds the keywords before the body runs: the first keyword the
\* signature does not have raises TypeError
BindErr(keywords, signature) ==
    IF \A i \in DOMAIN keywords : keywords[i] \in signature THEN "none"
    ELSE Only({"run_simulation() got an unexpected keyword argument '" \o keywords[i] \o "'" :
               i \in {Only({j \in DOMAIN keywords :
                        /\ keywords[j] \notin signature
                        /\ \A k \in 1..(j - 1) : keywords[k] \in signature})}})

\* the checks and loaders at the head of run_simulation's body
RunSimulationErr(case) ==
    IF RLe(case.dt, Zero) THEN "Time step dt must be positive."
    ELSE IF RLt(case.t_end, Zero) THEN "t_end must be non-negative."
    ELSE IF LoadParametersErr(case.params_config) # "none"
    THEN LoadParametersErr(case.params_config)
    ELSE LoadScenarioErr(case.scenario_config)

\* the dictionary run_simulation returns: it is a function of the four
\* arguments alone and is named here by them
RunSimulationData(case) ==
    [params_config |-> case.params_config, scenario_config |-> case.scenario_config,
     t_end |-> case.t_end, dt |-> case.dt]

BatchResult(id, ok, data, error) == [id |-> id, ok |-> ok, data |-> data, error |-> error]

\* _run_single_case: try run_simulation(...), except Exception
RunSingleCase(case) ==
    IF BindErr(SingleCaseKeywords, RunSimulationSignature) # "none"
    THEN BatchResult(case.id, FALSE, PyNone,
                     BindErr(SingleCaseKeywords, RunSimulationSignature))
    ELSE IF RunSimulationErr(case) # "none"
    THEN BatchResult(case.id, FALSE, PyNone, RunSimulationErr(case))
    ELSE BatchResult(case.id, TRUE, RunSimulationData(case), PyNone)

\* results listed as the workers deliver them
PoolMapResults_AsCompleted(done) == [i \in DOMAIN done |-> done[i][2]]

\* pool.map and the sequential list: the result of case i at position i
PoolMapResults(done) ==
    [i \in DOMAIN done |-> done[Only({j \in DOMAIN done : done[j][1] = i})][2]]

BtCases ==
    {[id |-> id, params_config |-> p, scenario_config |-> Only(FxGoodScenarios),
      integrator |-> "rk4", adaptive |-> FALSE, t_end |-> One, dt |-> dt] :
        id \in {"A", "B"},
        p \in FxGoodParams \cup {Without(q, "L") : q \in FxGoodParams},
        dt \in {Half}}

RECURSIVE ListsUpTo(_, _)
ListsUpTo(S, n) ==
    IF n = 0 THEN {<<>>}
    ELSE ListsUpTo(S, n - 1) \cup
         {Append(l, e) : l \in {m \in ListsUpTo(S, n - 1) : Len(m) = n - 1}, e \in S}

BtInit ==
    /\ \E cases \in ListsUpTo(BtCases, MaxCases), parallel \in BOOLEAN,
          max_workers \in {0, 1, 2} :
            btIn = [cases |-> cases, parallel |-> parallel, max_workers |-> max_workers]
    /\ btPc = "called"
    /\ btBusy = {}
    /\ btDone = <<>>
    /\ btOut = "none"
    /\ BtRestIdle

\* if not parallel: results = []
BtSequential ==
    /\ btPc = "called" /\ ~btIn.parallel
    /\ btPc' = "loop"
    /\ UNCHANGED <<btIn, btBusy, btDone, btOut, btRest>>

\* for case in cases: results.append(_run_single_case(case))
BtLoopCase ==
    /\ btPc = "loop" /\ Len(btDone) < Len(btIn.cases)
    /\ \E i \in {Len(btDone) + 1} :
            btDone' = Append(btDone, <<i, RunSingleCase(btIn.cases[i])>>)
    /\ UNCHANGED <<btIn, btPc, btBusy, btOut, btRest>>

\* with mp.Pool(processes=max_workers): fewer than one process is a ValueError
BtPoolRaise ==
    /\ btPc = "called" /\ btIn.parallel /\ btIn.max_workers < 1
    /\ btPc' = "raised"
    /\ btOut' = "ValueError"
    /\ UNCHANGED <<btIn, btBusy, btDone, btRest>>

BtPoolStart ==
    /\ btPc = "called" /\ btIn.parallel /\ btIn.max_workers >= 1
    /\ btPc' = "pool"
    /\ UNCHANGED <<btIn, btBusy, btDone, btOut, btRest>>

\* a free worker takes the next case of the task queue
BtWorkerTake ==
    /\ btPc = "pool"
    /\ Cardinality(btBusy) < btIn.max_workers
    /\ \E i \in {Len(btDone) + Cardinality(btBusy) + 1} :
        /\ i <= Len(btIn.cases)
        /\ btBusy' = btBusy \cup {i}
    /\ UNCHANGED <<btIn, btPc, btDone, btOut, btRest>>

\* a worker finishes _run_single_case and delivers (index, result)
BtWorkerFinish ==
    /\ btPc = "pool"
    /\ \E i \in btBusy :
        /\ btBusy' = btBusy \ {i}
        /\ btDone' = Append(btDone, <<i, RunSingleCase(btIn.cases[i])>>)
    /\ UNCHANGED <<btIn, btPc, btOut, btRest>>

\* return results: every case has delivered
BtReturn ==
    /\ btPc \in {"loop", "pool"}
    /\ Len(btDone) = Len(btIn.cases)
    /\ btPc' = "returned"
    /\ btOut' = PoolMapResults(btDone)
    /\ UNCHANGED <<btIn, btBusy, btDone, btRest>>

BtNext ==
    \/ BtSequential
    \/ BtLoopCase
    \/ BtPoolRaise
    \/ BtPoolStart
    \/ BtWorkerTake
    \/ BtWorkerFinish
    \/ BtReturn

SpecBatch == BtInit /\ [][BtNext]_vars

BtReturned == btPc = "returned"

\* the workers delivered in another order than the input order
BtOutOfOrder == \E j \in DOMAIN btDone : btDone[j][1] # j

\* C23: a run_batch call that returns gives a list with one BatchResult per
\* case, the result at position i carrying the id of case i and being what
\* _run_single_case gives for case i alone, whatever the other cases are
\* and in whatever order parallel workers finished; a result with
\* ok = False has data = None and an error text; a sequential call always
\* returns, a parallel one raises only when max_workers < 1.
C23_OneResultPerCaseInOrder ==
    /\ BtReturned =>
        /\ Len(btOut) = Len(btIn.cases)
        /\ \A i \in DOMAIN btOut :
            /\ btOut[i].id = btIn.cases[i].id
            /\ btOut[i] = RunSingleCase(btIn.cases[i])
            /\ ~btOut[i].ok => (btOut[i].data = PyNone /\ btOut[i].error # PyNone)
            /\ btOut[i].ok => btOut[i].error = PyNone
    /\ btPc = "raised" => (btIn.parallel /\ btIn.max_workers < 1)

\* a parallel call returned three results, the workers having finished out
\* of order, with a failed case among cases of different ids
C23_Witness ==
    /\ BtReturned /\ btIn.parallel /\ BtOutOfOrder
    /\ Len(btOut) = 3
    /\ btOut[1].id # btOut[2].id
    /\ \E i \in DOMAIN btOut : ~btOut[i].ok /\ btOut[i].data = PyNone

\* C24: a returned case whose configuration run_simulation accepts has
\* ok = True and the data run_simulation returns for its arguments.
C24_ValidCaseCompletes ==
    BtReturned =>
        \A i \in DOMAIN btOut :
            RunSimulationErr(btIn.cases[i]) = "none" =>
                /\ btOut[i].ok
                /\ btOut[i].data = RunSimulationData(btIn.cases[i])

\* ---------------------------------------------------------------------
\* Forced acceptance in run_simulation_adaptive
\* ---------------------------------------------------------------------

\* a pass of the loop body has been completed; adLog' is its log record
TrialLogged ==
    /\ adPc = "loop" /\ adPc' = "loop"
    /\ <<adRun, adLog>>' # <<adRun, adLog>>
    /\ adLog'.event = "adaptive_step_eval"

\* the trial just logged had an error estimate above tol
TrialAboveTol == TrialLogged /\ RLt(adIn.tol, adLog'.error)

NrReturnedMeetsTol ==
    /\ ResidualErr(nrIn.kind, nrIn.x, NrReturnedY, nrIn.params, nrIn.inputs) = "none"
    /\ VectorNormLe(Residual(nrIn.kind, nrIn.x, NrReturnedY, nrIn.params, nrIn.inputs),
                    nrLoc.cfg.norm, nrLoc.cfg.tol)

\* the loop ended by running out of passes, not by the break
NrExhausted == NrReturned /\ ~nrLoc.converged

\* C26 (as stated): a returned count smaller than max_iter implies that the
\* returned y has residual norm <= tol; a count equal to max_iter implies
\* that the loop was exhausted and the returned y does not meet the
\* tolerance.
C26_CountTellsTerminalState ==
    NrReturned =>
        /\ nrLoc.n_iter < nrLoc.cfg.max_iter => NrReturnedMeetsTol
        /\ nrLoc.n_iter = nrLoc.cfg.max_iter => (NrExhausted /\ ~NrReturnedMeetsTol)

\* C26: a returned count smaller than max_iter implies that the loop ended
\* by the break on the returned y, whose residual norm is <= tol; a
\* converged call has 1 <= count <= max_iter and an exhausted one has
\* count = max(max_iter, 0), so that a count equal to max_iter does not
\* tell the two apart, and the y of an exhausted call was never evaluated.
C26_CountBelowMaxIterConverged ==
    NrReturned =>
        /\ nrLoc.n_iter < nrLoc.cfg.max_iter => (nrLoc.converged /\ NrReturnedMeetsTol)
        /\ nrLoc.converged =>
                /\ NrReturnedMeetsTol
                /\ 1 <= nrLoc.n_iter /\ nrLoc.n_iter <= nrLoc.cfg.max_iter
                /\ nrLoc.evals = nrLoc.n_iter /\ nrLoc.updates = nrLoc.n_iter - 1
        /\ NrExhausted =>
                /\ nrLoc.n_iter = (IF nrLoc.cfg.max_iter >= 0 THEN nrLoc.cfg.max_iter ELSE 0)
                /\ nrLoc.updates = nrLoc.evals

\* a call that converged after an update, with passes to spare
C26_Witness ==
    /\ nrPc = "returned"
    /\ nrLoc.converged
    /\ nrLoc.updates >= 1
    /\ nrLoc.n_iter < nrLoc.cfg.max_iter
    /\ NrReturnedMeetsTol

\* a call that converged in its last pass
C26_ConvergedInLastPass ==
    NrReturned /\ nrLoc.converged /\ nrLoc.n_iter = nrLoc.cfg.max_iter

\* an exhausted call whose last update reached a y that meets the tolerance
C26_ExhaustedAtARoot ==
    NrExhausted /\ nrLoc.updates >= 1 /\ NrReturnedMeetsTol

\* ---------------------------------------------------------------------
\* The key order of y in newton_raphson
\* ---------------------------------------------------------------------

\* a dict as the mapping it is: its key-value pairs without their order
AsMapping(d) == {d[i] : i \in DOMAIN d}

\* C27: a newton_raphson call with g_residual and dg_dy that returns gives
\* the same key-value pairs as the call on the y0 with the same pairs
\* inserted in the order Idc, P_ac, Q_ac, and that call returns too.
C27_KeyOrderIrrelevant ==
    (NrReturned /\ nrIn.kind = "g_residual") =>
        \E ref \in {NewtonRaphson(nrIn.kind, nrIn.x, InKeyOrder(nrIn.y0, ALGEBRAIC_KEYS),
                                  nrIn.params, nrIn.inputs, nrIn.kw)} :
            /\ ref.err = "none"
            /\ AsMapping(ref.y) = AsMapping(NrReturnedY)
            /\ ref.n_iter = nrLoc.n_iter

\* a returned call on a y0 with reordered keys that made a Newton update
C27_ReorderedReturned ==
    /\ nrPc = "returned"
    /\ nrIn.y0 \in NrReorderedY
    /\ nrLoc.updates >= 1

\* ---------------------------------------------------------------------
\* The three run_step calls of an adaptive trial
\* ---------------------------------------------------------------------

\* |x_coarse[key] - x_fine[key]|
AbsDifference(key, x_coarse, x_fine) == RAbs(RSub(Get(x_coarse, key), Get(x_fine, key)))

\* e is the largest |x_coarse[key] - x_fine[key]| over the keys of x
\* (0 when x has no key)
IsMaxOverStateKeys(e, x, x_coarse, x_fine) ==
    /\ \A key \in Keys(x) : RLe(AbsDifference(key, x_coarse, x_fine), e)
    /\ e = Zero \/ \E key \in Keys(x) : e = AbsDifference(key, x_coarse, x_fine)

ClosedFormY(x, inputs) ==
    MkY(RDiv(P_calc(x, inputs), Get(x, "Vdc")), P_calc(x, inputs), Q_calc(x, inputs))

\* the PCC voltages of the scenario, as run_step reads them
PccOf(scenario) == BuildInputs(scenario, Zero, Zero)

\* newton_raphson limited to a single pass, hence to a single update
OneUpdateFrom(y0) ==
    NewtonRaphson("g_residual", rsIn.x, y0, rsIn.params, rsOut.inputs, ("max_iter" :> 1))

C30_AlgebraicStageFrozen ==
    (StepReturned /\ rsIn.integrator_name \in Schemes) =>
        /\ VdcByIdc
        /\ rsOut.inputs = C15_InputsPre
        /\ \A name \in Schemes :
            \E other \in {RunStepAs(name)} :
                /\ other.err = "none"
                /\ other.y = rsOut.y
                /\ other.inputs = rsOut.inputs
                /\ Get(other.x, "Vdc") = Get(rsOut.x, "Vdc")

\* an rk4 step with a nonzero Idc_next and a Vdc that moved, whose currents
\* differ from those of the Euler and the rk2 step (the stages count), with
\* saturated converter voltages and a y_next other than the incoming y
C30_Witness ==
    /\ StepReturned
    /\ rsIn.integrator_name = "rk4"
    /\ Get(rsOut.y, "Idc") # Zero
    /\ Get(rsOut.x, "Vdc") # Get(rsIn.x, "Vdc")
    /\ Get(RunStepAs("euler").x, "id") # Get(rsOut.x, "id")
    /\ Get(RunStepAs("rk2").x, "id") # Get(rsOut.x, "id")
    /\ rsOut.y # rsIn.y
    /\ C15_SatPre.v_conv_d # C15_VrefPre.v_conv_d_ref

====
